---- MODULE Spec2Model ----
(***************************************************************************)
(* A model of aim.models: the deep-merge engine (loader.merge), the        *)
(* reference grammar (references.is_ref, Reference), the object-graph      *)
(* loader (apply_attributes_from_config, sub_types_loader), the tree       *)
(* walker (get_all_nodes), the reference resolver (resolve_ref) and the    *)
(* orchestration of a load (ModelLoader.load_all).                         *)
(*                                                                         *)
(* Each component has its own variables and its own specification; the     *)
(* variables of the components a specification does not exercise stay at   *)
(* their idle values.                                                      *)
(***************************************************************************)
EXTENDS Integers, Sequences, FiniteSets, TLC

VARIABLES
    m_pc,        \* merge: "init", "ready", "merged", "self", "empty", "mutated"
    m_base,      \* merge: the object the caller passes as base
    m_override,  \* merge: the object the caller passes as override
    m_base0,     \* merge: content of base when it was passed
    m_override0, \* merge: content of override when it was passed
    m_result,    \* merge: the object merge returned
    r_pc,        \* references: "text", "is_ref", "ref", "IndexError"
    r_text,      \* references: the text handed to is_ref or to Reference
    r_isref,     \* references: what is_ref returned
    r_ref,       \* references: the Reference constructed
    l_pc,        \* loader: "config", "built", "raised", "walked"
    l_config,    \* loader: the groups_config handed to load_resources
    l_nodes,     \* loader: the nodes of the tree load_resources built
    l_error,     \* loader: the exception load_resources raised
    l_visited,   \* loader: what get_all_nodes returned (or raised)
    p_pc,        \* apply: "call", "applied", "raised"
    p_obj,       \* apply: the object handed to apply_attributes_from_config
    p_config,    \* apply: the config handed to it
    p_path,      \* apply: the read_file_path handed to it ('' by default)
    p_result,    \* apply: the object as loaded, or the exception raised
    o_pc,        \* resolver: "call", "returned", "raised", "outputs", "outputs raised"
    o_ref_str,   \* resolver: the reference text handed to resolve_ref
    o_project,   \* resolver: the project, by whether it has the key 'home'
    o_account_ctx, \* resolver: whether an account context is handed over
    o_value,     \* resolver: what the node the reference reaches answers
    o_outputs,   \* resolver: the file of the Outputs folder
    o_result,    \* resolver: what the call returned or raised
    a_pc,        \* load: "start", "loaded", "raised", "resolved", "references raised"
    a_installed, \* load: the (major, medium) version of the installed aim.models
    a_version,   \* load: the version aim-project-version.txt declares
    a_credentials, \* load: the mode of .credentials.yaml
    a_config,    \* load: the groups of the application in the configuration
    a_outputs,   \* load: the groups of the application in the recorded outputs
    a_nodes,     \* load: the nodes of the project
    a_error,     \* load: the exception load_all raised
    a_resolved,  \* load: the deferred attributes load_references resolved
    a_monitor,   \* load: the NotificationGroups document and the applications' alarms
    a_project,   \* load: whether the project attribute of the loader is set
    a_notificationgroups, \* load: the notification groups of the project
    a_trace,     \* load: what the loader did from outside, in order
    g_pc, \* rule: "rule", "passed", "failed"
    g_rule, \* rule: the from_port, to_port and port of a security group rule
    g_invalid, \* rule: what its invariant raised, or None
    e_pc, \* environments: "config", "loaded", "raised"
    e_config, \* environments: the applications of the document, of its default tier and of a region
    e_default, \* environments: the item configurations loaded into the EnvironmentDefault
    e_region, \* environments: the item configurations loaded into the EnvironmentRegion
    e_error, \* environments: the exception instantiate_network_environments raised
    t_pc, \* types: "config", "loaded", "raised"
    t_call, \* types: the function that selects classes by 'type', the items it is given and the file they were read from
    t_nodes, \* types: the objects the function constructed and saved
    t_error, \* types: the exception the function raised
    d_pc, \* where a call of get_resolve_ref_obj stands
    d_graph, \* the objects under the object the descent starts at
    d_ref_str, \* the text of the reference
    d_result, \* the error raised, ref.resource, ref.resource_ref and the response
    s_pc, \* where a call of insert_env_ref_str or insert_env_ref_aim_sub stands
    s_call, \* the call: the spans of the text, env_id and region
    s_str, \* str_value, the text the call works on
    s_loop, \* str_idx, end_str_idx and first_pass of insert_env_ref_aim_sub
    s_first, \* what the first of two calls of insert_env_ref_str returned
    s_exc, \* the exception raised
    n_pc, \* annotation: "config", "annotated"
    n_call, \* annotation: the tier and the configurations of the item in the tiers
    n_base_config, \* annotation: the configuration the item's was merged over
    n_item_config, \* annotation: the merged configuration of the item
    n_annotations  \* annotation: the '__base__' attributes of the item, by the name of the key

mergeVars == <<m_pc, m_base, m_override, m_base0, m_override0, m_result>>

refVars == <<r_pc, r_text, r_isref, r_ref>>

loaderVars == <<l_pc, l_config, l_nodes, l_error, l_visited>>

applyVars == <<p_pc, p_obj, p_config, p_path, p_result>>

resolverVars ==
    <<o_pc, o_ref_str, o_project, o_account_ctx, o_value, o_outputs, o_result>>

loadAllVars ==
    <<a_pc, a_installed, a_version, a_credentials, a_config, a_outputs, a_nodes,
      a_error, a_resolved, a_monitor, a_project, a_notificationgroups, a_trace>>

ruleVars == <<g_pc, g_rule, g_invalid>>

envRegionVars == <<e_pc, e_config, e_default, e_region, e_error>>

typesVars == <<t_pc, t_call, t_nodes, t_error>>

descentVars == <<d_pc, d_graph, d_ref_str, d_result>>

subVars == <<s_pc, s_call, s_str, s_loop, s_first, s_exc>>

annotateVars == <<n_pc, n_call, n_base_config, n_item_config, n_annotations>>

vars ==
    <<mergeVars, refVars, loaderVars, applyVars, resolverVars, loadAllVars,
      ruleVars, envRegionVars, typesVars, descentVars, subVars,
      annotateVars>>

\* what the actions of one component leave alone
notMerge ==
    <<refVars, loaderVars, applyVars, resolverVars, loadAllVars, ruleVars,
      envRegionVars, typesVars, descentVars, subVars, annotateVars>>
notRef ==
    <<mergeVars, loaderVars, applyVars, resolverVars, loadAllVars,
      ruleVars, envRegionVars, typesVars, descentVars, subVars,
      annotateVars>>
notLoader ==
    <<mergeVars, refVars, applyVars, resolverVars, loadAllVars, ruleVars,
      envRegionVars, typesVars, descentVars, subVars, annotateVars>>
notApply ==
    <<mergeVars, refVars, loaderVars, resolverVars, loadAllVars, ruleVars,
      envRegionVars, typesVars, descentVars, subVars, annotateVars>>
notResolver ==
    <<mergeVars, refVars, loaderVars, applyVars, loadAllVars, ruleVars,
      envRegionVars, typesVars, descentVars, subVars, annotateVars>>
notLoadAll ==
    <<mergeVars, refVars, loaderVars, applyVars, resolverVars, ruleVars,
      envRegionVars, typesVars, descentVars, subVars, annotateVars>>
notRule ==
    <<mergeVars, refVars, loaderVars, applyVars, resolverVars, loadAllVars,
      envRegionVars, typesVars, descentVars, subVars, annotateVars>>
notEnvRegion ==
    <<mergeVars, refVars, loaderVars, applyVars, resolverVars, loadAllVars,
      ruleVars, typesVars, descentVars, subVars, annotateVars>>
notTypes ==
    <<mergeVars, refVars, loaderVars, applyVars, resolverVars, loadAllVars,
      ruleVars, envRegionVars, descentVars, subVars, annotateVars>>
notDescent ==
    <<mergeVars, refVars, loaderVars, applyVars, resolverVars, loadAllVars,
      ruleVars, envRegionVars, typesVars, subVars, annotateVars>>
notSub ==
    <<mergeVars, refVars, loaderVars, applyVars, resolverVars, loadAllVars,
      ruleVars, envRegionVars, typesVars, descentVars, annotateVars>>
notAnnotate ==
    <<mergeVars, refVars, loaderVars, applyVars, resolverVars, loadAllVars,
      ruleVars, envRegionVars, typesVars, descentVars, subVars>>

Max(x, y) == IF x >= y THEN x ELSE y
Min(x, y) == IF x <= y THEN x ELSE y

(***************************************************************************)
(* Python values (the nested maps, sequences and scalars the YAML library  *)
(* produces).  A value is a record: k is its type, v its content, and own  *)
(* says which object a map or list is: one of the caller's base, one of    *)
(* the caller's override, or one that merge created.  Two names for the    *)
(* same object carry the same own and sit at the same path.                *)
(***************************************************************************)
None == [k |-> "none", own |-> "-", v |-> 0]
Num(n) == [k |-> "int", own |-> "-", v |-> n]
Dict(o, f) == [k |-> "dict", own |-> o, v |-> f]
List(o, s) == [k |-> "list", own |-> o, v |-> s]

isdict(x) == x.k = "dict"
islist(x) == x.k = "list"

\* Python's == on values: content only, whichever object holds it.
RECURSIVE Plain(_)
Plain(x) ==
    CASE isdict(x) -> Dict("-", [key \in DOMAIN x.v |-> Plain(x.v[key])])
      [] islist(x) -> List("-", [i \in 1..Len(x.v) |-> Plain(x.v[i])])
      [] OTHER -> x

\* copy.deepcopy: new objects all the way down.
RECURSIVE deepcopy(_)
deepcopy(x) ==
    CASE isdict(x) -> Dict("new", [key \in DOMAIN x.v |-> deepcopy(x.v[key])])
      [] islist(x) -> List("new", [i \in 1..Len(x.v) |-> deepcopy(x.v[i])])
      [] OTHER -> x

\* dict.get(k, None)
get(d, key) == IF key \in DOMAIN d.v THEN d.v[key] ELSE None

\* element i of a side of itertools.zip_longest: None once the side is exhausted
zip_longest(s, i) == IF i <= Len(s) THEN s[i] ELSE None

\* A merge whose result does not start as a copy of base.
RECURSIVE merge_no_base(_, _)
merge_no_base(base, override) ==
    IF isdict(base) /\ isdict(override)
    THEN Dict("new", [key \in DOMAIN override.v |->
                         merge_no_base(get(base, key), override.v[key])])
    ELSE IF islist(base) /\ islist(override)
    THEN List("new", [i \in 1..Max(Len(base.v), Len(override.v)) |->
                         merge_no_base(zip_longest(base.v, i), zip_longest(override.v, i))])
    ELSE IF override = None THEN deepcopy(base) ELSE deepcopy(override)

\* A merge that pairs two lists with zip: it stops where the shorter one ends.
RECURSIVE merge_zip(_, _)
merge_zip(base, override) ==
    IF isdict(base) /\ isdict(override)
    THEN Dict("new", [key \in DOMAIN base.v \cup DOMAIN override.v |->
                         IF key \in DOMAIN override.v
                         THEN merge_zip(get(base, key), override.v[key])
                         ELSE base.v[key]])
    ELSE IF islist(base) /\ islist(override)
    THEN List("new", [i \in 1..Min(Len(base.v), Len(override.v)) |->
                         merge_zip(base.v[i], override.v[i])])
    ELSE IF override = None THEN deepcopy(base) ELSE deepcopy(override)

\* A merge that returns the winning side itself, not a copy of it.
RECURSIVE merge_shared(_, _)
merge_shared(base, override) ==
    IF isdict(base) /\ isdict(override)
    THEN Dict("new", [key \in DOMAIN base.v \cup DOMAIN override.v |->
                         IF key \in DOMAIN override.v
                         THEN merge_shared(get(base, key), override.v[key])
                         ELSE base.v[key]])
    ELSE IF islist(base) /\ islist(override)
    THEN List("new", [i \in 1..Max(Len(base.v), Len(override.v)) |->
                         merge_shared(zip_longest(base.v, i), zip_longest(override.v, i))])
    ELSE IF override = None THEN base ELSE override

\* loader.merge.  dict(base) is a shallow copy: the new dict holds, under the
\* keys override does not have, the very objects base holds.
RECURSIVE merge(_, _)
merge(base, override) ==
    IF isdict(base) /\ isdict(override)
    THEN Dict("new", [key \in DOMAIN base.v \cup DOMAIN override.v |->
                         IF key \in DOMAIN override.v
                         THEN merge(get(base, key), override.v[key])
                         ELSE base.v[key]])
    ELSE IF islist(base) /\ islist(override)
    THEN List("new", [i \in 1..Max(Len(base.v), Len(override.v)) |->
                         merge(zip_longest(base.v, i), zip_longest(override.v, i))])
    ELSE IF override = None THEN deepcopy(base) ELSE deepcopy(override)

(***************************************************************************)
(* The merge component: a caller builds two configurations, merges them,   *)
(* and may afterwards change a map or a list of the result in place.       *)
(***************************************************************************)
MaxScalar == 2
MaxLen == 2

Keys == {"a", "b"}
InnerKeys == {"x", "y"}
EmptyMap == [key \in {} |-> None]

Leaves == {None} \cup {Num(n) : n \in 1..MaxScalar}
InnerLeaves == {None, Num(1), Num(2)}
SeqsUpTo(S, n) == UNION {[1..m -> S] : m \in 0..n}
MapsOver(K, S) == UNION {[D -> S] : D \in SUBSET K}
InnerDicts(o) == {Dict(o, f) : f \in MapsOver(InnerKeys, InnerLeaves)}
ListElems(o) == {None, Num(1), Dict(o, [key \in {"x"} |-> Num(1)])}
InnerLists(o) == {List(o, s) : s \in SeqsUpTo(ListElems(o), MaxLen)}
Values(o) == Leaves \cup InnerDicts(o) \cup InnerLists(o)
\* top-level configurations: key a holds any value, key b a scalar or null
Configs(o) ==
    {Dict(o, f) : f \in {g \in MapsOver(Keys, Values(o)) :
                            "b" \in DOMAIN g => g["b"] \in Leaves}}

\* the scenario of the specification: {a: 1, b: {x: 1, y: 2}} and {b: {y: 3}}
ScenarioBase ==
    Dict("base", [key \in {"a", "b"} |->
        IF key = "a" THEN Num(1)
        ELSE Dict("base", [j \in {"x", "y"} |-> IF j = "x" THEN Num(1) ELSE Num(2)])])
ScenarioOverride ==
    Dict("override", [key \in {"b"} |-> Dict("override", [j \in {"y"} |-> Num(3)])])
ScenarioMerged ==
    Dict("-", [key \in {"a", "b"} |->
        IF key = "a" THEN Num(1)
        ELSE Dict("-", [j \in {"x", "y"} |-> IF j = "x" THEN Num(1) ELSE Num(3)])])

\* a step of a path into a value: a key of a map or an index of a list
KeyStep(key) == [s |-> key, i |-> 0]
IdxStep(n) == [s |-> "", i |-> n]
Steps == {KeyStep(key) : key \in Keys \cup InnerKeys} \cup {IdxStep(n) : n \in 1..MaxLen}
MutPaths == {<<>>} \cup {<<st>> : st \in Steps} \cup {<<st, su>> : st \in Steps, su \in Steps}

HasChild(x, st) ==
    IF isdict(x) THEN st.i = 0 /\ st.s \in DOMAIN x.v
    ELSE islist(x) /\ st.s = "" /\ st.i \in 1..Len(x.v)
Child(x, st) == IF isdict(x) THEN x.v[st.s] ELSE x.v[st.i]

RECURSIVE HasPath(_, _)
HasPath(x, p) ==
    IF p = <<>> THEN TRUE
    ELSE HasChild(x, Head(p)) /\ HasPath(Child(x, Head(p)), Tail(p))
RECURSIVE at(_, _)
at(x, p) == IF p = <<>> THEN x ELSE at(Child(x, Head(p)), Tail(p))
RECURSIVE put(_, _, _)
put(x, p, y) ==
    IF p = <<>> THEN y
    ELSE IF isdict(x)
    THEN [x EXCEPT !.v = [key \in DOMAIN x.v |->
             IF key = Head(p).s THEN put(x.v[key], Tail(p), y) ELSE x.v[key]]]
    ELSE [x EXCEPT !.v = [n \in 1..Len(x.v) |->
             IF n = Head(p).i THEN put(x.v[n], Tail(p), y) ELSE x.v[n]]]

\* an in-place change of a map (d['poked'] = 0) or of a list (l.append(0))
poke(x) ==
    IF isdict(x)
    THEN [x EXCEPT !.v = [key \in DOMAIN x.v \cup {"poked"} |->
             IF key = "poked" THEN Num(0) ELSE x.v[key]]]
    ELSE [x EXCEPT !.v = [n \in 1..(Len(x.v) + 1) |->
             IF n = Len(x.v) + 1 THEN Num(0) ELSE x.v[n]]]

MergeIdle ==
    /\ m_pc = "idle"
    /\ m_base = None
    /\ m_override = None
    /\ m_base0 = None
    /\ m_override0 = None
    /\ m_result = None

MergeInit ==
    /\ m_pc = "ready"
    /\ \E pair \in (Configs("base") \X Configs("override"))
                       \cup {<<ScenarioBase, ScenarioOverride>>} :
          /\ m_base = pair[1]
          /\ m_override = pair[2]
    /\ m_base0 = m_base
    /\ m_override0 = m_override
    /\ m_result = None

\* result = merge(base, override)
Merge ==
    /\ m_pc = "ready"
    /\ m_result' = merge(m_base, m_override)
    /\ m_pc' = "merged"
    /\ UNCHANGED <<m_base, m_override, m_base0, m_override0>>
    /\ UNCHANGED notMerge

\* result = merge(base, base)
MergeSelf ==
    /\ m_pc = "ready"
    /\ m_override' = m_base
    /\ m_override0' = m_base0
    /\ m_result' = merge(m_base, m_base)
    /\ m_pc' = "self"
    /\ UNCHANGED <<m_base, m_base0>>
    /\ UNCHANGED notMerge

\* result = merge(base, {})
MergeEmpty ==
    /\ m_pc = "ready"
    /\ m_override' = Dict("override", EmptyMap)
    /\ m_override0' = m_override'
    /\ m_result' = merge(m_base, m_override')
    /\ m_pc' = "empty"
    /\ UNCHANGED <<m_base, m_base0>>
    /\ UNCHANGED notMerge

\* The caller changes the map or list at path p of the result in place.  The
\* object changes under every name it has: when it is one of base's (or of
\* override's) objects, base (or override) shows the change too.
MutateResult ==
    /\ m_pc \in {"merged", "self", "empty"}
    /\ \E p \in MutPaths :
          /\ HasPath(m_result, p)
          /\ at(m_result, p).k \in {"dict", "list"}
          /\ LET obj == at(m_result, p) IN
                /\ m_result' = put(m_result, p, poke(obj))
                /\ m_base' = IF obj.own = "base"
                             THEN put(m_base, p, poke(obj)) ELSE m_base
                /\ m_override' = IF obj.own = "override"
                                 THEN put(m_override, p, poke(obj)) ELSE m_override
    /\ m_pc' = "mutated"
    /\ UNCHANGED <<m_base0, m_override0>>
    /\ UNCHANGED notMerge

MergeNext == Merge \/ MergeSelf \/ MergeEmpty \/ MutateResult

(***************************************************************************)
(* The reference grammar.  A text is the sequence of its characters.       *)
(***************************************************************************)
\* 'aim.ref '
aim_ref_sentinel == <<"a", "i", "m", ".", "r", "e", "f", " ">>
\* ref_types of is_ref, in the order it tries them
ref_types ==
    <<<<"n", "e", "t", "e", "n", "v">>,
      <<"r", "e", "s", "o", "u", "r", "c", "e">>,
      <<"a", "c", "c", "o", "u", "n", "t", "s">>,
      <<"f", "u", "n", "c", "t", "i", "o", "n">>,
      <<"s", "e", "r", "v", "i", "c", "e">>>>
netenv == ref_types[1]
\* the keys of vocabulary.aws_regions
aws_regions ==
    {<<"u", "s", "-", "e", "a", "s", "t", "-", "2">>,
     <<"u", "s", "-", "e", "a", "s", "t", "-", "1">>,
     <<"u", "s", "-", "w", "e", "s", "t", "-", "1">>,
     <<"u", "s", "-", "w", "e", "s", "t", "-", "2">>,
     <<"u", "s", "-", "g", "o", "v", "-", "w", "e", "s", "t", "-", "1">>,
     <<"u", "s", "-", "g", "o", "v", "-", "e", "a", "s", "t", "-", "1">>,
     <<"a", "p", "-", "n", "o", "r", "t", "h", "e", "a", "s", "t", "-", "1">>,
     <<"a", "p", "-", "n", "o", "r", "t", "h", "e", "a", "s", "t", "-", "3">>,
     <<"a", "p", "-", "n", "o", "r", "t", "h", "e", "a", "s", "t", "-", "2">>,
     <<"c", "a", "-", "c", "e", "n", "t", "r", "a", "l", "-", "1">>,
     <<"c", "n", "-", "n", "o", "r", "t", "h", "-", "1">>,
     <<"c", "n", "-", "n", "o", "r", "t", "h", "w", "e", "s", "t", "-", "1">>,
     <<"e", "u", "-", "c", "e", "n", "t", "r", "a", "l", "-", "1">>,
     <<"e", "u", "-", "w", "e", "s", "t", "-", "1">>,
     <<"e", "u", "-", "w", "e", "s", "t", "-", "2">>,
     <<"e", "u", "-", "w", "e", "s", "t", "-", "3">>,
     <<"e", "u", "-", "n", "o", "r", "t", "h", "-", "1">>,
     <<"a", "p", "-", "s", "o", "u", "t", "h", "-", "1">>,
     <<"s", "a", "-", "e", "a", "s", "t", "-", "1">>,
     <<"a", "p", "-", "s", "o", "u", "t", "h", "e", "a", "s", "t", "-", "1">>,
     <<"a", "p", "-", "s", "o", "u", "t", "h", "e", "a", "s", "t", "-", "2">>}

\* str.startswith
startswith(s, prefix) ==
    Len(s) >= Len(prefix) /\ SubSeq(s, 1, Len(prefix)) = prefix

\* is_ref without the '.' that ends the namespace
is_ref_no_dot(aim_ref) ==
    IF ~startswith(aim_ref, aim_ref_sentinel) THEN FALSE
    ELSE \E i \in 1..Len(ref_types) :
            startswith(aim_ref, aim_ref_sentinel \o ref_types[i])

\* references.is_ref
is_ref(aim_ref) ==
    IF ~startswith(aim_ref, aim_ref_sentinel) THEN FALSE
    ELSE \E i \in 1..Len(ref_types) :
            startswith(aim_ref, aim_ref_sentinel \o ref_types[i] \o <<".">>)

\* str.find of one character: the first index at which c occurs in s, 0 if none
find(s, c) ==
    IF \E i \in 1..Len(s) : s[i] = c
    THEN CHOOSE i \in 1..Len(s) : s[i] = c /\ \A j \in 1..(i - 1) : s[j] # c
    ELSE 0

\* str.split(c, maxsplit): maxsplit = -1 splits at every c.  text is s,
\* evaluated once
RECURSIVE split(_, _, _)
split(s, c, maxsplit) ==
    CHOOSE parts \in
        {LET i == find(text, c) IN
         IF maxsplit = 0 \/ i = 0 THEN <<text>>
         ELSE <<SubSeq(text, 1, i - 1)>>
                  \o split(SubSeq(text, i + 1, Len(text)), c, maxsplit - 1) :
            text \in {s}} : TRUE

\* c.join(parts)
RECURSIVE join(_, _)
join(parts, c) ==
    IF parts = <<>> THEN <<>>
    ELSE IF Len(parts) = 1 THEN parts[1]
    ELSE parts[1] \o <<c>> \o join(Tail(parts), c)

\* Reference.__init__ raises IndexError: value has no space (split(' ', 2)[1]),
\* or a netenv reference has fewer than four parts (parts[3])
Reference_raises(value) ==
    IF Len(split(value, " ", 2)) < 2 THEN TRUE
    ELSE LET parts == split(split(value, " ", 2)[2], ".", -1) IN
         parts[1] = netenv /\ Len(parts) < 4

\* A Reference whose ref is all of the text after the first space.
Reference_split_once(value) ==
    LET ref == split(value, " ", 1)[2]
        parts == split(ref, ".", -1)
    IN  [raw |-> value, ref |-> ref, parts |-> parts, type |-> parts[1],
         resource |-> <<>>, resource_ref |-> <<>>,
         region |-> IF parts[1] = netenv /\ Len(parts) >= 4 /\ parts[4] \in aws_regions
                    THEN parts[4] ELSE <<>>,
         invalid_printed |-> ~is_ref(value)]

\* Reference.__init__, when it does not raise.  invalid_printed: it printed
\* "Invalid AIM Reference".  resource, resource_ref and region start as None,
\* written <<>>.
Reference(value) ==
    LET ref == split(value, " ", 2)[2]
        parts == split(ref, ".", -1)
    IN  [raw |-> value, ref |-> ref, parts |-> parts, type |-> parts[1],
         resource |-> <<>>, resource_ref |-> <<>>,
         region |-> IF parts[1] = netenv /\ parts[4] \in aws_regions
                    THEN parts[4] ELSE <<>>,
         invalid_printed |-> ~is_ref(value)]

\* The texts a caller may hand over: a prefix, a first word, and up to
\* MaxParts further words, each after a '.' or a ' '.
MaxParts == 3
Prefixes ==
    {aim_ref_sentinel, <<"a", "i", "m", ".", "r", "e", "f">>, <<>>,
     aim_ref_sentinel \o <<" ">>, <<"a", "i", "m", ".", "s", "u", "b", " ">>}
FirstWords ==
    {ref_types[i] : i \in 1..Len(ref_types)} \cup {<<"f", "o", "o">>, <<>>, <<"n", "e", "t", "e", "n", "v", "x">>}
Words == {<<"a">>, <<>>, <<"u", "s", "-", "w", "e", "s", "t", "-", "2">>}
RECURSIVE Tails(_)
Tails(n) ==
    IF n = 0 THEN {<<>>}
    ELSE Tails(n - 1) \cup
         {t \o <<sep>> \o w : t \in Tails(n - 1), sep \in {".", " "}, w \in Words}
Texts == {p \o f \o t : p \in Prefixes, f \in FirstWords, t \in Tails(MaxParts)}

RefIdle ==
    /\ r_pc = "idle"
    /\ r_text = <<>>
    /\ r_isref = FALSE
    /\ r_ref = <<>>

RefInit ==
    /\ r_pc = "text"
    /\ r_text \in Texts
    /\ r_isref = FALSE
    /\ r_ref = <<>>

\* is_ref(text)
CallIsRef ==
    /\ r_pc = "text"
    /\ r_isref' = is_ref(r_text)
    /\ r_pc' = "is_ref"
    /\ UNCHANGED <<r_text, r_ref>>
    /\ UNCHANGED notRef

\* Reference(text)
NewReference ==
    /\ r_pc = "text"
    /\ IF Reference_raises(r_text)
       THEN r_pc' = "IndexError" /\ r_ref' = r_ref
       ELSE r_pc' = "ref" /\ r_ref' = Reference(r_text)
    /\ UNCHANGED <<r_text, r_isref>>
    /\ UNCHANGED notRef

RefNext == CallIsRef \/ NewReference

(***************************************************************************)
(* The object-graph loader.  A configuration read from YAML is a scalar    *)
(* text (its characters), a list, or a map; a map keeps its keys in the    *)
(* order of the file, the order in which the loader reads them.            *)
(***************************************************************************)
YNone == [k |-> "none", v |-> <<>>]
YStr(s) == [k |-> "str", v |-> s]
YList(s) == [k |-> "list", v |-> s]
YMap(items) == [k |-> "map", v |-> items]
Item(key, val) == [key |-> key, val |-> val]

\* config.keys(), in order
keys(config) == [i \in 1..Len(config.v) |-> config.v[i].key]
\* key in config
has_key(config, key) == \E i \in 1..Len(config.v) : config.v[i].key = key
\* config.get(name, None)
config_get(config, name) ==
    IF has_key(config, name)
    THEN (CHOOSE it \in {config.v[i] : i \in 1..Len(config.v)} : it.key = name).val
    ELSE YNone

SetMin(S) == CHOOSE x \in S : \A y \in S : x <= y

(***************************************************************************)
(* The schema: the fields of each node type as zope.schema.getFields       *)
(* lists them (the interface's own fields, then those of its bases), the   *)
(* interfaces that make a type locatable (INamed) or a container           *)
(* (IMapping), and the sub-type table of the loader.                       *)
(***************************************************************************)
Fld(name, kind) ==
    [name |-> name, kind |-> kind, str_ok |-> FALSE, readonly |-> FALSE, default |-> "None"]
\* TextReference(str_ok = ...)
TextRef(name, str_ok) == [Fld(name, "TextReference") EXCEPT !.str_ok = str_ok]
\* schema.List(default = [])
ListDefaultEmpty(name) == [Fld(name, "List") EXCEPT !.default = "[]"]

INamedFields == <<Fld("name", "TextLine"), Fld("title", "TextLine")>>
IResourceFields ==
    <<Fld("type", "TextLine"), Fld("resource_name", "TextLine"),
      Fld("resource_fullname", "TextLine"), Fld("order", "Int"),
      Fld("change_protected", "Bool")>>
      \o INamedFields \o <<Fld("enabled", "Bool"), Fld("dns_enabled", "Bool")>>

Classes ==
    {"ResourceGroups", "ResourceGroup", "Resources", "CloudFront",
     "CloudFrontOrigin", "CloudFrontFactory", "DNS", "CloudFrontViewerCertificate",
     "CloudFrontCustomOriginConfig", "CloudFrontCustomErrorResponse",
     "CloudFrontDefaultCacheBehaviour", "CloudFrontForwardedValues",
     "CloudFrontCookies", "Project", "Credentials", "IAMUserPermissions",
     "IAMUserPermissionAdministrator", "LambdaFunctionCode"}

\* schemas.INamed.implementedBy(cls)
INamed_implementedBy(cls) ==
    cls \in {"ResourceGroups", "ResourceGroup", "Resources", "CloudFront",
             "CloudFrontOrigin", "CloudFrontFactory", "Project", "Credentials",
             "IAMUserPermissions", "IAMUserPermissionAdministrator"}

\* zope.interface.common.mapping.IMapping.providedBy(an object of cls)
IMapping_providedBy(cls) ==
    cls \in {"ResourceGroups", "ResourceGroup", "Resources", "Project",
             "IAMUserPermissions"}

\* zope.schema.getFields over the interfaces of cls
Fields(cls) ==
    CASE cls = "ResourceGroups" -> INamedFields
      [] cls = "Resources" -> INamedFields
      [] cls = "ResourceGroup" ->
            <<Fld("title", "TextLine"), Fld("type", "TextLine"), Fld("order", "Int"),
              Fld("resources", "Object"), Fld("dns_enabled", "Bool"),
              Fld("name", "TextLine"), Fld("enabled", "Bool")>>
      [] cls = "CloudFront" ->
            <<ListDefaultEmpty("domain_aliases"), Fld("default_root_object", "TextLine"),
              Fld("default_cache_behavior", "Object"), Fld("viewer_certificate", "Object"),
              Fld("price_class", "TextLine"), ListDefaultEmpty("custom_error_responses"),
              Fld("origins", "Dict"), Fld("webacl_id", "TextLine"), Fld("factory", "Dict")>>
              \o IResourceFields
      [] cls = "CloudFrontOrigin" ->
            <<TextRef("s3_bucket", FALSE), TextRef("domain_name", TRUE),
              Fld("custom_origin_config", "Object")>> \o INamedFields
      [] cls = "CloudFrontFactory" ->
            <<ListDefaultEmpty("domain_aliases"), Fld("viewer_certificate", "Object")>>
              \o INamedFields
      [] cls = "DNS" ->
            <<TextRef("hosted_zone", FALSE), TextRef("domain_name", TRUE),
              TextRef("ssl_certificate", FALSE)>>
      [] cls = "CloudFrontViewerCertificate" ->
            <<TextRef("certificate", FALSE), Fld("ssl_supported_method", "TextLine"),
              Fld("minimum_protocol_version", "TextLine"), Fld("enabled", "Bool")>>
      [] cls = "CloudFrontCustomOriginConfig" ->
            <<Fld("http_port", "Int"), Fld("https_port", "Int"),
              Fld("protocol_policy", "TextLine"), Fld("ssl_protocols", "List"),
              Fld("read_timeout", "Int"), Fld("keepalive_timeout", "Int")>>
      [] cls = "CloudFrontCustomErrorResponse" ->
            <<Fld("error_caching_min_ttl", "Int"), Fld("error_code", "Int"),
              Fld("response_code", "Int"), Fld("response_page_path", "TextLine")>>
      [] cls = "CloudFrontDefaultCacheBehaviour" ->
            <<Fld("allowed_methods", "List"), Fld("default_ttl", "Int"),
              TextRef("target_origin", FALSE), Fld("viewer_protocol_policy", "TextLine"),
              Fld("forwarded_values", "Object")>>
      [] cls = "CloudFrontForwardedValues" ->
            <<Fld("query_string", "Bool"), Fld("cookies", "Object"), Fld("headers", "List")>>
      [] cls = "CloudFrontCookies" ->
            <<Fld("forward", "TextLine"), Fld("white_listed_names", "List")>>
      [] cls = "Project" -> <<Fld("aim_project_version", "TextLine")>> \o INamedFields
      [] cls = "Credentials" ->
            <<Fld("aws_access_key_id", "TextLine"), Fld("aws_secret_access_key", "TextLine"),
              Fld("aws_default_region", "TextLine"), Fld("master_account_id", "TextLine"),
              Fld("master_admin_iam_username", "TextLine"),
              Fld("admin_iam_role_name", "TextLine"),
              Fld("mfa_session_expiry_secs", "Int"),
              Fld("assume_role_session_expiry_secs", "Int")>> \o INamedFields
      [] cls = "IAMUserPermissions" -> INamedFields
      [] cls = "IAMUserPermissionAdministrator" ->
            <<Fld("accounts", "CommaList"), Fld("read_only", "Bool"),
              Fld("type", "TextLine")>> \o INamedFields \o <<Fld("enabled", "Bool")>>
      [] cls = "LambdaFunctionCode" ->
            <<Fld("zipfile", "FileReference"), TextRef("s3_bucket", FALSE),
              Fld("s3_key", "TextLine")>>

\* base.get_all_fields: the names of the fields of every interface of the object
get_all_fields(cls) == {Fields(cls)[i].name : i \in 1..Len(Fields(cls))}

Sub(sub_type, sub_class) == [sub_type |-> sub_type, sub_class |-> sub_class]
NoSubTypes == [name \in {} |-> Sub("", "")]

\* loader.SUB_TYPES_CLASS_MAP, the entries of the CloudFront family
SUB_TYPES_CLASS_MAP(cls) ==
    CASE cls = "CloudFront" ->
            [name \in {"default_cache_behavior", "domain_aliases", "custom_error_responses",
                       "origins", "viewer_certificate", "factory"} |->
                CASE name = "default_cache_behavior" ->
                        Sub("unnamed_dict", "CloudFrontDefaultCacheBehaviour")
                  [] name = "domain_aliases" -> Sub("obj_list", "DNS")
                  [] name = "custom_error_responses" ->
                        Sub("obj_list", "CloudFrontCustomErrorResponse")
                  [] name = "origins" -> Sub("named_dict", "CloudFrontOrigin")
                  [] name = "viewer_certificate" ->
                        Sub("unnamed_dict", "CloudFrontViewerCertificate")
                  [] name = "factory" -> Sub("named_dict", "CloudFrontFactory")]
      [] cls = "CloudFrontDefaultCacheBehaviour" ->
            [name \in {"allowed_methods", "forwarded_values"} |->
                IF name = "allowed_methods" THEN Sub("str_list", "TextLine")
                ELSE Sub("unnamed_dict", "CloudFrontForwardedValues")]
      [] cls = "CloudFrontForwardedValues" ->
            [name \in {"cookies"} |-> Sub("unnamed_dict", "CloudFrontCookies")]
      [] cls = "CloudFrontCookies" ->
            [name \in {"white_listed_names"} |-> Sub("str_list", "TextLine")]
      [] cls = "CloudFrontOrigin" ->
            [name \in {"custom_origin_config"} |->
                Sub("unnamed_dict", "CloudFrontCustomOriginConfig")]
      [] cls = "CloudFrontCustomOriginConfig" ->
            [name \in {"ssl_protocols"} |-> Sub("str_list", "TextLine")]
      [] cls = "CloudFrontFactory" ->
            [name \in {"domain_aliases", "viewer_certificate"} |->
                IF name = "domain_aliases" THEN Sub("obj_list", "DNS")
                ELSE Sub("unnamed_dict", "CloudFrontViewerCertificate")]
      [] OTHER -> NoSubTypes

(***************************************************************************)
(* Nodes.  A node is known by id, the place it was constructed at; parent  *)
(* is its __parent__ attribute: a node, None, or no attribute at all for   *)
(* an object constructed without arguments.  attrs holds the attributes    *)
(* the loader set, refs the '_ref_' attributes, items the children of a    *)
(* container.                                                              *)
(***************************************************************************)
ParentNone == [tag |-> "None", id |-> <<>>]
ParentNode(id) == [tag |-> "node", id |-> id]
ParentUnset == [tag |-> "unset", id |-> <<>>]

NoAttrs == [name \in {} |-> YNone]
NoName == "<unset>"

\* Named.__init__(name, __parent__)
Named(cls, id, name, parent) ==
    [id |-> id, cls |-> cls, name |-> name, parent |-> parent,
     attrs |-> NoAttrs, refs |-> NoAttrs, items |-> <<>>]
\* sub_class(): an object that is given neither a name nor a parent
Unnamed(cls, id) ==
    [id |-> id, cls |-> cls, name |-> NoName, parent |-> ParentUnset,
     attrs |-> NoAttrs, refs |-> NoAttrs, items |-> <<>>]

\* attribute values: a scalar, an object, a dict of objects, a list of objects
AObj(id) == [k |-> "obj", v |-> id]
ADict(items) == [k |-> "dict", v |-> items]
AList(ids) == [k |-> "objlist", v |-> ids]
AStrList(s) == [k |-> "strlist", v |-> s]

IdxNames == <<"0", "1", "2", "3">>

NoError == [exc |-> "", path |-> "", key |-> "", type |-> ""]
UnusedAimProjectField(read_file_path, key, cls) ==
    [exc |-> "UnusedAimProjectField", path |-> read_file_path, key |-> key, type |-> cls]
InvalidAimProjectFile(read_file_path, name, cls) ==
    [exc |-> "InvalidAimProjectFile", path |-> read_file_path, key |-> name, type |-> cls]
\* Python's KeyError, raised by a subscript with a missing key
KeyError(key) == [exc |-> "KeyError", path |-> "", key |-> key, type |-> ""]
TypeError == [exc |-> "TypeError", path |-> "", key |-> "", type |-> ""]
AttributeError == [exc |-> "AttributeError", path |-> "", key |-> "", type |-> ""]

\* the result of loading an object: the error raised, or the object and the
\* objects constructed below it
Loaded(obj, nodes) == [err |-> NoError, obj |-> obj, nodes |-> nodes]
Raised(obj, err) == [err |-> err, obj |-> obj, nodes |-> {}]
\* the error raised while a container was filled: the container keeps what
\* was saved in it before, nodes being the objects below it
RaisedIn(obj, err, nodes) == [err |-> err, obj |-> obj, nodes |-> nodes]
\* what one field of the schema does to the object
Skip == [err |-> NoError, slot |-> "skip", val |-> YNone, nodes |-> {}]
SetAttr(val, nodes) == [err |-> NoError, slot |-> "attr", val |-> val, nodes |-> nodes]
\* a reference assigned to the attribute at once instead of being recorded
SetRefNotDeferred(val) == [err |-> NoError, slot |-> "attr", val |-> val, nodes |-> {}]
SetRef(val) == [err |-> NoError, slot |-> "ref", val |-> val, nodes |-> {}]
FieldRaised(err) == [err |-> err, slot |-> "skip", val |-> YNone, nodes |-> {}]

\* TextReference()._validate(value): value is a text and is_ref(value)
is_reference(value) == value.k = "str" /\ is_ref(value.v)

\* the unknown-key check without its test for containers
unknown_key_every_type(cls, config) ==
    LET bad == {i \in 1..Len(config.v) : config.v[i].key \notin get_all_fields(cls)}
    IN  IF bad # {} THEN config.v[SetMin(bad)].key ELSE ""

\* loader.py:357-363: the key UnusedAimProjectField is raised for, "" if none
unknown_key(cls, config) ==
    LET bad == {i \in 1..Len(config.v) : config.v[i].key \notin get_all_fields(cls)}
    IN  IF ~IMapping_providedBy(cls) /\ bad # {}
        THEN config.v[SetMin(bad)].key ELSE ""

\* setattr(obj, name, value) of a value that is no reference: the field
\* validates it.  A TextReference field takes such a text only when it is
\* declared str_ok; every scalar of a configuration is a text here, which an
\* Int or Bool field rejects; an Object or Dict field rejects a raw map.
validates(field, value) ==
    CASE field.kind = "TextLine" -> value.k = "str"
      [] field.kind = "TextReference" -> value.k = "str" /\ field.str_ok
      [] field.kind = "List" -> value.k = "list"
      [] field.kind = "CommaList" -> value.k = "list"
      [] field.kind = "FileReference" -> value.k = "str"
      [] OTHER -> FALSE

\* str.strip()
strip(s) ==
    LET kept == {i \in 1..Len(s) : s[i] # " "}
    IN  IF kept = {} THEN <<>>
        ELSE SubSeq(s, SetMin(kept), CHOOSE i \in kept : \A j \in kept : j <= i)

\* the files of the disk, by directory and path, and what each holds
HandlerPath == <<"h", ".", "p", "y">>
Files == [file \in {<<"etworkEnvironments/", HandlerPath>>} |-> <<"p", "a", "s", "s">>]

\* os.sep.join(Path(read_file_path).parts[:-1])[1:], and None without a
\* read_file_path
base_path_of(read_file_path) ==
    CASE read_file_path = "" -> "None"
      [] read_file_path = "NetworkEnvironments/ne.yaml" -> "etworkEnvironments"
      [] OTHER -> ""

\* a value a step produced, or the error it raised
Value(val) == [err |-> NoError, val |-> val]
NoValue(err) == [err |-> err, val |-> YNone]

\* loader.load_string_from_path(path, base_path)
load_string_from_path(path, base_path) ==
    LET dir == IF base_path = "etworkEnvironments" THEN "etworkEnvironments/"
               ELSE base_path
    IN  IF base_path = "None" THEN NoValue(AttributeError)
        ELSE IF path.k # "str" THEN NoValue(TypeError)
        ELSE IF <<dir, path.v>> \in DOMAIN Files THEN Value(YStr(Files[<<dir, path.v>>]))
        ELSE NoValue(InvalidAimProjectFile("", "", "FileReference"))

\* loader.py:378-396: the value of a field, read from the configuration
field_value(field, config, read_file_path) ==
    CASE field.kind = "FileReference" ->
            load_string_from_path(config_get(config, field.name),
                                  base_path_of(read_file_path))
      [] field.kind = "CommaList" ->
            IF ~has_key(config, field.name) THEN NoValue(KeyError(field.name))
            ELSE IF config_get(config, field.name).k # "str" THEN NoValue(AttributeError)
            ELSE LET list == split(config_get(config, field.name).v, ",", -1)
                 IN  Value(YList([i \in 1..Len(list) |-> YStr(strip(list[i]))]))
      [] OTHER -> Value(config_get(config, field.name))

RECURSIVE apply_attributes_from_config(_, _, _)
RECURSIVE sub_types_loader(_, _, _, _)

\* loader.py:375-452, for one field of the schema
apply_field(obj, field, config, read_file_path) ==
    LET name == field.name
        read == field_value(field, config, read_file_path)
        value == read.val
    IN  IF name = "name" /\ INamed_implementedBy(obj.cls) THEN Skip
        ELSE IF read.err # NoError THEN FieldRaised(read.err)
        ELSE IF value = YNone THEN Skip
        ELSE IF is_reference(value)
        THEN IF field.kind = "TextReference" THEN SetAttr(value, {})
             ELSE SetRef(value)
        ELSE IF obj.cls = "ResourceGroup" /\ name = "resources" THEN Skip
        ELSE IF name \in DOMAIN SUB_TYPES_CLASS_MAP(obj.cls)
        THEN LET set_sub(sub) == IF sub.err # NoError THEN FieldRaised(sub.err)
                                  ELSE SetAttr(sub.val, sub.nodes)
             IN  set_sub(sub_types_loader(obj, name, value, read_file_path))
        ELSE IF ~validates(field, value)
        THEN FieldRaised(InvalidAimProjectFile(read_file_path, name, obj.cls))
        ELSE SetAttr(value, {})

apply_attributes_from_config(obj, config, read_file_path) ==
    LET cls == obj.cls
        fs == Fields(cls)
        unknown == unknown_key(cls, config)
        \* done: what each field of the schema, in order, did to the object
        applied(done) ==
            LET bad == {i \in 1..Len(fs) : done[i].err # NoError}
                set == {i \in 1..Len(fs) : done[i].slot = "attr"}
                ref == {i \in 1..Len(fs) : done[i].slot = "ref"}
            IN  IF bad # {} THEN Raised(obj, done[SetMin(bad)].err)
                ELSE Loaded(
                        [obj EXCEPT
                            !.attrs = [n \in DOMAIN obj.attrs \cup {fs[i].name : i \in set} |->
                                         IF \E i \in set : fs[i].name = n
                                         THEN done[CHOOSE i \in set : fs[i].name = n].val
                                         ELSE obj.attrs[n]],
                            !.refs = [n \in {fs[i].name : i \in ref} |->
                                         done[CHOOSE i \in ref : fs[i].name = n].val]],
                        UNION {done[i].nodes : i \in 1..Len(fs)})
    IN  IF unknown # ""
        THEN Raised(obj, UnusedAimProjectField(read_file_path, unknown, cls))
        ELSE applied([i \in 1..Len(fs) |->
                         apply_field(obj, fs[i], config, read_file_path)])

\* the objects one sub-type strategy constructs, each loaded from its config
SubResult(subs) ==
    LET bad == {i \in 1..Len(subs) : subs[i].err # NoError}
    IN  [err |-> IF bad # {} THEN subs[SetMin(bad)].err ELSE NoError,
         nodes |-> IF bad # {} THEN {}
                   ELSE UNION {subs[i].nodes \cup {subs[i].obj} : i \in 1..Len(subs)}]

sub_types_loader(obj, name, value, read_file_path) ==
    LET sub_type == SUB_TYPES_CLASS_MAP(obj.cls)[name].sub_type
        sub_class == SUB_TYPES_CLASS_MAP(obj.cls)[name].sub_class
        here == obj.id \o <<name>>
        sub_dict(subs) ==
            [err |-> SubResult(subs).err, nodes |-> SubResult(subs).nodes,
             val |-> ADict([i \in 1..Len(subs) |-> Item(value.v[i].key, subs[i].obj.id)])]
        sub_obj(sub) ==
            [err |-> sub.err, nodes |-> SubResult(<<sub>>).nodes, val |-> AObj(here)]
        sub_list(subs) ==
            [err |-> SubResult(subs).err, nodes |-> SubResult(subs).nodes,
             val |-> AList([i \in 1..Len(subs) |-> subs[i].obj.id])]
    IN  CASE sub_type = "named_dict" ->
                sub_dict([i \in 1..Len(value.v) |->
                        apply_attributes_from_config(
                            IF INamed_implementedBy(sub_class)
                            THEN Named(sub_class, here \o <<value.v[i].key>>,
                                       value.v[i].key, ParentNode(obj.id))
                            ELSE Unnamed(sub_class, here \o <<value.v[i].key>>),
                            value.v[i].val, read_file_path)])
          [] sub_type = "unnamed_dict" ->
                sub_obj(apply_attributes_from_config(
                            IF INamed_implementedBy(sub_class)
                            THEN Named(sub_class, here, name, ParentNode(obj.id))
                            ELSE Unnamed(sub_class, here),
                            value, read_file_path))
          [] sub_type = "obj_list" ->
                sub_list([i \in 1..Len(value.v) |->
                        apply_attributes_from_config(
                            IF INamed_implementedBy(sub_class)
                            THEN Named(sub_class, here \o <<IdxNames[i]>>,
                                       name, ParentNode(obj.id))
                            ELSE Unnamed(sub_class, here \o <<IdxNames[i]>>),
                            value.v[i], read_file_path)])
          [] sub_type = "str_list" ->
                [err |-> NoError, nodes |-> {},
                 val |-> AStrList([i \in 1..Len(value.v) |-> value.v[i].v])]

\* how many of the objects a loop loads are loaded before one raises
SavedUpto(subs) ==
    IF \A i \in 1..Len(subs) : subs[i].err = NoError THEN Len(subs)
    ELSE SetMin({i \in 1..Len(subs) : subs[i].err # NoError}) - 1

\* 'CloudFront', a key of RESOURCES_CLASS_MAP
CloudFrontText == <<"C", "l", "o", "u", "d", "F", "r", "o", "n", "t">>
\* loader.RESOURCES_CLASS_MAP[type], the entry of the CloudFront family; ""
\* stands for the KeyError of a type that is no key
RESOURCES_CLASS_MAP(type) == IF type = YStr(CloudFrontText) THEN "CloudFront" ELSE ""

\* loader.load_resources, for one resource of a group
load_resource(resources, res_key, res_config, read_file_path) ==
    LET type == config_get(res_config, "type")
        klass == RESOURCES_CLASS_MAP(type)
        obj == Named(klass, resources.id \o <<res_key>>, res_key, ParentNode(resources.id))
    IN  IF klass = ""
        THEN Raised(obj, InvalidAimProjectFile(read_file_path, res_key, "type"))
        ELSE apply_attributes_from_config(obj, res_config, read_file_path)

\* loader.load_resources, for one group: the group, its Resources container
\* and the resources of its config
load_group(res_groups, grp_key, grp_config, read_file_path) ==
    LET at_group == res_groups.id \o <<grp_key>>
        at_resources == at_group \o <<"resources">>
        \* ResourceGroup(grp_key, res_groups), which holds a Resources container
        resource_group ==
            [Named("ResourceGroup", at_group, grp_key, ParentNode(res_groups.id))
                EXCEPT !.attrs = [name \in {"resources"} |-> AObj(at_resources)]]
        resources == Named("Resources", at_resources, "resources", ParentNode(at_group))
        res_configs == config_get(grp_config, "resources")
        \* group: the group as its config loaded it; subs: its resources.
        \* The group is saved in res_groups before its resources are loaded,
        \* each resource in the container once it is loaded.
        filled(group, subs) ==
            LET upto == SavedUpto(subs)
                items == [i \in 1..upto |->
                             Item(res_configs.v[i].key, subs[i].obj.id)]
                saved == group.nodes
                            \cup UNION {subs[i].nodes \cup {subs[i].obj} : i \in 1..upto}
                            \cup {[resources EXCEPT !.items = items]}
            IN  IF group.err # NoError THEN Raised(resource_group, group.err)
                ELSE IF upto < Len(subs)
                THEN RaisedIn(group.obj, subs[upto + 1].err, saved)
                ELSE Loaded(group.obj, saved)
    IN  filled(apply_attributes_from_config(resource_group, grp_config, read_file_path),
               [i \in 1..Len(res_configs.v) |->
                   load_resource(resources, res_configs.v[i].key,
                                 res_configs.v[i].val, read_file_path)])

\* loader.load_resources(res_groups, groups_config): the error raised, or
\* every node of the tree below (and with) res_groups
load_resources(res_groups, groups_config, read_file_path) ==
    LET filled(subs) ==
            LET upto == SavedUpto(subs)
                \* the group that raised was saved when it raised for a resource
                kept == IF upto < Len(subs) /\ subs[upto + 1].nodes # {}
                        THEN upto + 1 ELSE upto
                items == [i \in 1..kept |->
                             Item(groups_config.v[i].key, subs[i].obj.id)]
                saved == UNION {subs[i].nodes \cup {subs[i].obj} : i \in 1..kept}
            IN  IF upto < Len(subs)
                THEN RaisedIn([res_groups EXCEPT !.items = items],
                              subs[upto + 1].err, saved)
                ELSE Loaded([res_groups EXCEPT !.items = items], saved)
    IN  filled([i \in 1..Len(groups_config.v) |->
                   load_group(res_groups, groups_config.v[i].key,
                              groups_config.v[i].val, read_file_path)])

\* 'Administrator', a key of IAM_USER_PERMISSIONS_CLASS_MAP; 'Bogus', a key
\* of no class map
AdministratorText == <<"A", "d", "m", "i", "n", "i", "s", "t", "r", "a", "t", "o", "r">>
BogusText == <<"B", "o", "g", "u", "s">>
\* loader.IAM_USER_PERMISSIONS_CLASS_MAP[type], the entry of Administrator;
\* "" stands for the KeyError of a type that is no key
IAM_USER_PERMISSIONS_CLASS_MAP(type) ==
    IF type = YStr(AdministratorText) THEN "IAMUserPermissionAdministrator" ELSE ""
\* the text of a key, as a KeyError shows it
repr(key) ==
    CASE key = YStr(AdministratorText) -> "'Administrator'"
      [] key = YStr(CloudFrontText) -> "'CloudFront'"
      [] key = YStr(BogusText) -> "'Bogus'"
      [] OTHER -> "None"

\* ModelLoader.load_iam_group(res_groups, app_config), self.read_file_path
\* being read_file_path: the error raised and the objects saved
load_iam_group(res_groups, app_config, read_file_path) ==
    LET groups == IF has_key(app_config, "groups") THEN config_get(app_config, "groups")
                  ELSE YMap(<<>>)
        \* loader.py:849-859, for one resource of the group
        load_iam_resource(grp_key, res_key, res_config) ==
            LET klass == RESOURCES_CLASS_MAP(config_get(res_config, "type"))
                obj == Named(klass, res_groups.id \o <<grp_key, "resources", res_key>>,
                             res_key, ParentNode(res_groups.id))
            IN  IF klass = "" THEN Raised(obj, InvalidAimProjectFile("", res_key, "type"))
                ELSE apply_attributes_from_config(obj, res_config, read_file_path)
        \* loader.py:845-859, for one group
        load_iam_resource_group(grp_key, grp_config) ==
            LET at_group == res_groups.id \o <<grp_key>>
                resource_group ==
                    [Named("ResourceGroup", at_group, grp_key, ParentNode(res_groups.id))
                        EXCEPT !.attrs =
                            [name \in {"resources"} |-> AObj(at_group \o <<"resources">>)]]
                resources == Named("Resources", at_group \o <<"resources">>, "resources",
                                   ParentNode(at_group))
                res_configs == config_get(grp_config, "resources")
                filled(group, subs) ==
                    LET upto == SavedUpto(subs)
                        items == [i \in 1..upto |->
                                     Item(res_configs.v[i].key, subs[i].obj.id)]
                        saved == group.nodes
                                    \cup UNION {subs[i].nodes \cup {subs[i].obj} :
                                                   i \in 1..upto}
                                    \cup {[resources EXCEPT !.items = items]}
                    IN  IF group.err # NoError THEN Raised(resource_group, group.err)
                        ELSE IF upto < Len(subs)
                        THEN RaisedIn(group.obj, subs[upto + 1].err, saved)
                        ELSE Loaded(group.obj, saved)
            IN  filled(apply_attributes_from_config(resource_group, grp_config,
                                                    read_file_path),
                       [i \in 1..Len(res_configs.v) |->
                           load_iam_resource(grp_key, res_configs.v[i].key,
                                             res_configs.v[i].val)])
        all(subs) ==
            LET upto == SavedUpto(subs)
                kept == IF upto < Len(subs) /\ subs[upto + 1].nodes # {}
                        THEN upto + 1 ELSE upto
            IN  [err |-> IF upto < Len(subs) THEN subs[upto + 1].err ELSE NoError,
                 nodes |-> UNION {subs[i].nodes \cup {subs[i].obj} : i \in 1..kept}]
    IN  all([i \in 1..Len(groups.v) |->
                load_iam_resource_group(groups.v[i].key, groups.v[i].val)])

\* loader.instantiate_iam_user_permissions(value, parent, read_file_path):
\* the error raised and the permissions saved in the IAMUserPermissions
instantiate_iam_user_permissions(value, parent, read_file_path) ==
    LET permissions == Named("IAMUserPermissions", parent.id \o <<"permissions">>,
                             "permissions", ParentNode(parent.id))
        one(permission_name, permission_config) ==
            LET type == config_get(permission_config, "type")
                klass == IAM_USER_PERMISSIONS_CLASS_MAP(type)
                permission_obj == Named(klass, permissions.id \o <<permission_name>>,
                                        permission_name, ParentNode(permissions.id))
            IN  IF ~has_key(permission_config, "type")
                THEN Raised(permission_obj, KeyError("'type'"))
                ELSE IF klass = "" THEN Raised(permission_obj, KeyError(repr(type)))
                ELSE apply_attributes_from_config(permission_obj, permission_config,
                                                  read_file_path)
        all(subs) ==
            LET upto == SavedUpto(subs)
            IN  [err |-> IF upto < Len(subs) THEN subs[upto + 1].err ELSE NoError,
                 nodes |-> UNION {subs[i].nodes \cup {subs[i].obj} : i \in 1..upto}]
    IN  all([i \in 1..Len(value.v) |-> one(value.v[i].key, value.v[i].val)])

(***************************************************************************)
(* Walking a built tree.                                                   *)
(***************************************************************************)
node(nodes, id) == CHOOSE n \in nodes : n.id = id

\* getattr(cur_node, field_name, None): what was set, or the field's default
getattr(cur_node, field) ==
    IF field.name \in DOMAIN cur_node.attrs THEN cur_node.attrs[field.name]
    ELSE IF field.default = "[]" THEN AList(<<>>)
    ELSE YNone

\* bool(obj) of a model object: a container is a dict, false when empty
truth(obj) == IF IMapping_providedBy(obj.cls) THEN obj.items # <<>> ELSE TRUE

RECURSIVE Concat(_)
Concat(seqs) == IF seqs = <<>> THEN <<>> ELSE Head(seqs) \o Concat(Tail(seqs))

Reverse(s) == [i \in 1..Len(s) |-> s[Len(s) + 1 - i]]

\* iterating a List field whose value is None raises TypeError
walk_raises(cur_node) ==
    \E i \in 1..Len(Fields(cur_node.cls)) :
        LET field == Fields(cur_node.cls)[i] IN
        field.kind = "List" /\ ~field.readonly /\ getattr(cur_node, field) = YNone

\* loader.py:317-339: the nodes get_all_nodes inserts at the front of its
\* stack for cur_node, in the order it inserts them
children(nodes, cur_node) ==
    LET fs == Fields(cur_node.cls)
        of_field(field) ==
            LET obj == getattr(cur_node, field) IN
            CASE field.kind = "Object" ->
                    IF obj # YNone /\ truth(node(nodes, obj.v)) THEN <<obj.v>> ELSE <<>>
              [] field.kind = "Dict" ->
                    IF obj # YNone THEN [i \in 1..Len(obj.v) |-> obj.v[i].val] ELSE <<>>
              [] field.kind = "List" ->
                    IF ~field.readonly /\ obj.k = "objlist" THEN obj.v ELSE <<>>
              [] OTHER -> <<>>
    IN  (IF IMapping_providedBy(cur_node.cls)
         THEN [i \in 1..Len(cur_node.items) |-> cur_node.items[i].val] ELSE <<>>)
        \o Concat([i \in 1..Len(fs) |-> of_field(fs[i])])

\* A walk that appends the children of cur_node at the back of its work-list.
RECURSIVE get_all_nodes_fifo(_, _, _)
get_all_nodes_fifo(nodes, stack, visited) ==
    IF stack = <<>> THEN [err |-> "", nodes |-> visited]
    ELSE LET cur_node == node(nodes, Head(stack))
         IN  IF walk_raises(cur_node)
             THEN [err |-> "TypeError", nodes |-> Append(visited, Head(stack))]
             ELSE get_all_nodes_fifo(nodes,
                                     Tail(stack) \o children(nodes, cur_node),
                                     Append(visited, Head(stack)))

\* loader.get_all_nodes: stack is its stack, visited its nodes list
RECURSIVE get_all_nodes(_, _, _)
get_all_nodes(nodes, stack, visited) ==
    IF stack = <<>> THEN [err |-> "", nodes |-> visited]
    ELSE LET cur_node == node(nodes, Head(stack))
         IN  IF walk_raises(cur_node)
             THEN [err |-> "TypeError", nodes |-> Append(visited, Head(stack))]
             ELSE get_all_nodes(nodes,
                                Reverse(children(nodes, cur_node)) \o Tail(stack),
                                Append(visited, Head(stack)))

\* base.Parent.aim_ref_list of an object that has a __parent__
RECURSIVE aim_ref_list(_, _)
aim_ref_list(nodes, obj) ==
    IF obj.parent.tag # "node" THEN <<>>
    ELSE aim_ref_list(nodes, node(nodes, obj.parent.id)) \o <<obj.name>>

(***************************************************************************)
(* The loader component: a caller hands the groups of an application to    *)
(* load_resources and, when the tree is built, walks it.  The              *)
(* configurations give every field a value of its kind, and every object   *)
(* the fields it requires; fields with a constraint of their own get no    *)
(* value.                                                                  *)
(***************************************************************************)
MaxAliases == 2

PlainText == <<"x">>
\* 'aim.ref resource.x'
RefText == aim_ref_sentinel \o ref_types[2] \o <<".", "x">>
ReadFilePath == "NetworkEnvironments/ne.yaml"

SeqsOf(S, n) == UNION {[1..m -> S] : m \in 0..n}
\* an optional item of a map: absent, or present with one of the values
Opt(key, vals) == {<<>>} \cup {<<Item(key, val)>> : val \in vals}

DNSConfigs ==
    {YMap(<<Item("domain_name", YStr(PlainText))>>),
     YMap(<<Item("hosted_zone", YStr(RefText))>>)}
AliasLists == {YList(s) : s \in SeqsOf(DNSConfigs, MaxAliases)}
ViewerCertificateConfigs ==
    {YMap(<<>>),
     YMap(<<Item("certificate", YStr(RefText))>>),
     YMap(<<Item("certificate", YStr(PlainText))>>),
     YMap(<<Item("ssl_supported_method", YStr(RefText))>>)}
OriginConfigs ==
    {YMap(<<>>),
     YMap(<<Item("domain_name", YStr(RefText))>>),
     YMap(<<Item("bogus", YStr(PlainText))>>)}
OriginMaps ==
    {YMap(a \o b) : a \in Opt("a", OriginConfigs), b \in Opt("b", {YMap(<<>>)})}
FactoryConfigs ==
    {YMap(<<Item("viewer_certificate", YMap(<<>>))>>),
     YMap(<<Item("viewer_certificate", YMap(<<>>)),
            Item("domain_aliases", YList(<<YMap(<<Item("domain_name", YStr(PlainText))>>)>>))>>)}
FactoryMaps == {YMap(a) : a \in Opt("a", FactoryConfigs)}

TypeCloudFront == <<Item("type", YStr(CloudFrontText))>>
CloudFrontConfigs ==
    {YMap(TypeCloudFront \o bogus \o webacl \o origins \o factory \o aliases \o cert) :
        bogus \in Opt("bogus", {YStr(PlainText)}),
        webacl \in Opt("webacl_id", {YStr(PlainText), YStr(RefText)}),
        origins \in Opt("origins", OriginMaps),
        factory \in Opt("factory", FactoryMaps),
        aliases \in Opt("domain_aliases", AliasLists),
        cert \in Opt("viewer_certificate", ViewerCertificateConfigs)}

MinimalCloudFront == YMap(TypeCloudFront)
\* resources of a group, in small: none, one, two, one with two unknown keys,
\* one without a type, one of a type that is not in RESOURCES_CLASS_MAP
SmallResources ==
    {YMap(<<>>),
     YMap(<<Item("r", MinimalCloudFront)>>),
     YMap(<<Item("r", MinimalCloudFront), Item("s", MinimalCloudFront)>>),
     YMap(<<Item("r", YMap(TypeCloudFront \o <<Item("zz", YStr(PlainText)),
                                               Item("bogus", YStr(PlainText))>>))>>),
     YMap(<<Item("r", YMap(<<>>))>>),
     YMap(<<Item("r", YMap(<<Item("type", YStr(PlainText))>>))>>)}
SmallGroups ==
    {YMap(extra \o <<Item("resources", res)>>) :
        extra \in {<<>>, <<Item("bogus", YStr(PlainText))>>, <<Item("title", YStr(RefText))>>},
        res \in SmallResources}
GroupsConfigs ==
    {YMap(<<Item("g", YMap(<<Item("resources", YMap(<<Item("r", cf)>>))>>))>>) :
        cf \in CloudFrontConfigs}
    \cup {YMap(g \o h) : g \in Opt("g", SmallGroups), h \in Opt("h", SmallGroups)}

\* the ResourceGroups container load_resources fills: the root of the tree
res_groups == Named("ResourceGroups", <<>>, "groups", ParentNone)

LoaderIdle ==
    /\ l_pc = "idle"
    /\ l_config = YNone
    /\ l_nodes = {}
    /\ l_error = NoError
    /\ l_visited = [err |-> "", nodes |-> <<>>]

LoaderInit ==
    /\ l_pc = "config"
    /\ l_config \in GroupsConfigs
    /\ l_nodes = {}
    /\ l_error = NoError
    /\ l_visited = [err |-> "", nodes |-> <<>>]

\* load_resources(res_groups, groups_config, ..., read_file_path)
LoadResources ==
    /\ l_pc = "config"
    /\ LET built == load_resources(res_groups, l_config, ReadFilePath) IN
          /\ l_pc' = IF built.err # NoError THEN "raised" ELSE "built"
          /\ l_error' = built.err
          /\ l_nodes' = built.nodes \cup {built.obj}
    /\ UNCHANGED <<l_config, l_visited>>
    /\ UNCHANGED notLoader

\* get_all_nodes(root)
GetAllNodes ==
    /\ l_pc = "built"
    /\ l_visited' = get_all_nodes(l_nodes, <<res_groups.id>>, <<>>)
    /\ l_pc' = "walked"
    /\ UNCHANGED <<l_config, l_nodes, l_error>>
    /\ UNCHANGED notLoader

LoaderNext == LoadResources \/ GetAllNodes

(***************************************************************************)
(* One call of apply_attributes_from_config: on an object of any type of   *)
(* the family, with a configuration that may hold keys its schema has no   *)
(* field for, and with or without the read_file_path argument.             *)
(***************************************************************************)
\* up to two keys that are fields of no type, before and after the others
UnknownKeys ==
    {<<>>, <<Item("bogus", YStr(PlainText))>>,
     <<Item("zz", YStr(PlainText)), Item("bogus", YStr(PlainText))>>}
WithUnknownKeys(configs) ==
    {YMap(front \o config.v \o back) :
        front \in UnknownKeys, config \in configs,
        back \in {<<>>, <<Item("extra", YStr(PlainText))>>}}

\* the code of a Lambda: a file that exists or one that does not, a bucket,
\* a key
CodeConfigs ==
    {YMap(zipfile \o s3_bucket \o s3_key) :
        zipfile \in Opt("zipfile", {YStr(HandlerPath), YStr(PlainText)}),
        s3_bucket \in Opt("s3_bucket", {YStr(RefText)}),
        s3_key \in Opt("s3_key", {YStr(PlainText), YStr(RefText)})}
\* 'x, y'
AccountsText == <<"x", ",", " ", "y">>
\* an Administrator permission, with the name some configurations repeat
AdministratorConfigs ==
    {YMap(name \o type \o accounts) :
        name \in Opt("name", {YStr(PlainText)}),
        type \in Opt("type", {YStr(AdministratorText)}),
        accounts \in Opt("accounts", {YStr(AccountsText), YStr(RefText), YList(<<>>)})}
\* a factory whose certificate or aliases are given by reference
FactoryRefConfigs ==
    {YMap(<<Item("viewer_certificate", YStr(RefText))>>),
     YMap(<<Item("viewer_certificate", YMap(<<>>)), Item("domain_aliases", YStr(RefText))>>)}
\* an origin whose bucket and origin configuration are given by reference
OriginRefConfigs ==
    {YMap(<<Item("s3_bucket", YStr(RefText)), Item("custom_origin_config", YStr(RefText))>>)}

\* the objects the loader constructs before it applies a configuration, and
\* the configurations of their type
ApplyCalls ==
    ({Named("ResourceGroup", <<"g">>, "g", ParentNode(<<>>))}
        \X WithUnknownKeys(SmallGroups))
    \cup ({Named("CloudFront", <<"r">>, "r", ParentNode(<<>>))}
        \X WithUnknownKeys({c \in CloudFrontConfigs : ~has_key(c, "factory")}))
    \cup ({Named("CloudFrontOrigin", <<"o">>, "o", ParentNode(<<>>))}
        \X WithUnknownKeys(OriginConfigs \cup OriginRefConfigs))
    \cup ({Named("CloudFrontFactory", <<"f">>, "f", ParentNode(<<>>))}
        \X WithUnknownKeys(FactoryConfigs \cup FactoryRefConfigs))
    \cup ({Unnamed("LambdaFunctionCode", <<"c">>)} \X WithUnknownKeys(CodeConfigs))
    \cup ({Named("IAMUserPermissionAdministrator", <<"a">>, "a", ParentNode(<<>>))}
        \X WithUnknownKeys(AdministratorConfigs))
    \cup ({Unnamed("DNS", <<"d">>)} \X WithUnknownKeys(DNSConfigs))
    \cup ({Unnamed("CloudFrontViewerCertificate", <<"v">>)}
        \X WithUnknownKeys(ViewerCertificateConfigs))

ApplyIdle ==
    /\ p_pc = "idle"
    /\ p_obj = Unnamed("", <<>>)
    /\ p_config = YNone
    /\ p_path = ""
    /\ p_result = Loaded(p_obj, {})

ApplyInit ==
    /\ p_pc = "call"
    /\ \E call \in ApplyCalls :
          /\ p_obj = call[1]
          /\ p_config = call[2]
    /\ p_path \in {"", ReadFilePath}
    /\ p_result = Loaded(p_obj, {})

\* apply_attributes_from_config(obj, config, read_file_path=path)
ApplyAttributes ==
    /\ p_pc = "call"
    /\ p_result' = apply_attributes_from_config(p_obj, p_config, p_path)
    /\ p_pc' = IF p_result'.err # NoError THEN "raised" ELSE "applied"
    /\ UNCHANGED <<p_obj, p_config, p_path>>
    /\ UNCHANGED notApply

ApplyNext == ApplyAttributes

(***************************************************************************)
(* The reference resolver.  What the node a reference points at answers    *)
(* (its own resolve_ref) is an input: a Stack that is the pending marker   *)
(* of a target not yet provisioned, a text, or None.  The Outputs folder   *)
(* of the project holds at most one file, named by key; its content is     *)
(* YAML, its keys are texts.                                               *)
(***************************************************************************)
\* an object of class aim.stack_group.stack_group.Stack, which knows
\* whether it was modified since its outputs were recorded
Stack(cached) == [k |-> "Stack", v |-> IF cached THEN <<"cached">> ELSE <<"modified">>]
\* ref_value.is_stack_cached()
is_stack_cached(ref_value) == ref_value.v = <<"cached">>
\* '__name__', the only key of a recorded leaf
name_key == <<"_", "_", "n", "a", "m", "e", "_", "_">>

Returns(value) == [exc |-> "", value |-> value]
Raises(exc) == [exc |-> exc, value |-> YNone]

NoOutputsFile == [exists |-> FALSE, key |-> <<>>, content |-> YNone]
OutputsFile(key, content) == [exists |-> TRUE, key |-> key, content |-> content]

\* references.py:191-199, the loop of resolve_ref_outputs over ref.parts
RECURSIVE walk_outputs(_, _)
walk_outputs(outputs_dict, parts) ==
    IF parts = <<>> THEN Returns(YNone)
    ELSE IF outputs_dict.k # "map" THEN Raises("AttributeError")
    ELSE IF ~has_key(outputs_dict, Head(parts)) THEN Returns(YNone)
    ELSE LET next_node == config_get(outputs_dict, Head(parts)) IN
         IF next_node.k # "map" THEN Raises("AttributeError")
         ELSE IF keys(next_node) = <<name_key>>
         THEN Returns(config_get(next_node, name_key))
         ELSE walk_outputs(next_node, Tail(parts))

\* references.resolve_ref_outputs, outputs being the file of the folder
resolve_ref_outputs(ref, outputs) ==
    IF ~outputs.exists THEN Returns(YNone)
    ELSE IF outputs.key # ref.parts[1] THEN Returns(YNone)
    ELSE walk_outputs(outputs.content, ref.parts)

\* references.py:206-240: the dispatch on ref.type.  value is what the
\* object it reaches answers; a function reference without an account
\* context resolves to None
own_resolution(ref, account_ctx, value) ==
    CASE ref.type = ref_types[2] ->
            IF Len(ref.parts) < 2 THEN Raises("IndexError") ELSE Returns(value)
      [] ref.type = ref_types[5] ->
            IF Len(ref.parts) < 5 THEN Raises("IndexError") ELSE Returns(value)
      [] ref.type = netenv ->
            IF Len(ref.parts) < 4 THEN Raises("IndexError") ELSE Returns(value)
      [] ref.type = ref_types[3] ->
            IF Len(ref.parts) < 2 THEN Raises("IndexError") ELSE Returns(value)
      [] ref.type = ref_types[4] ->
            IF account_ctx THEN Returns(value) ELSE Returns(YNone)
      [] OTHER -> Raises("ValueError")

\* resolve_ref that asks the outputs for every Stack, cached or not
resolve_ref_any_stack(ref_str, project, account_ctx, value, outputs) ==
    LET resolved(ref) ==
            LET checked(ref_value, outputs_value) ==
                    IF ref_value.exc # "" THEN ref_value
                    ELSE IF ~project.home THEN ref_value
                    ELSE IF ref_value.value.k # "Stack" THEN ref_value
                    ELSE IF outputs_value.exc # "" THEN outputs_value
                    ELSE IF outputs_value.value # YNone THEN outputs_value
                    ELSE ref_value
            IN  checked(own_resolution(ref, account_ctx, value),
                        resolve_ref_outputs(ref, outputs))
    IN  IF Reference_raises(ref_str) THEN Raises("IndexError")
        ELSE resolved(Reference(ref_str))

\* references.resolve_ref(ref_str, project, account_ctx)
resolve_ref(ref_str, project, account_ctx, value, outputs) ==
    LET resolved(ref) ==
            LET checked(ref_value, outputs_value) ==
                    IF ref_value.exc # "" THEN ref_value
                    ELSE IF ~project.home THEN ref_value
                    ELSE IF ref_value.value.k # "Stack" THEN ref_value
                    ELSE IF ~is_stack_cached(ref_value.value) THEN ref_value
                    ELSE IF outputs_value.exc # "" THEN outputs_value
                    ELSE IF outputs_value.value # YNone THEN outputs_value
                    ELSE ref_value
            IN  checked(own_resolution(ref, account_ctx, value),
                        resolve_ref_outputs(ref, outputs))
    IN  IF Reference_raises(ref_str) THEN Raises("IndexError")
        ELSE resolved(Reference(ref_str))

\* The references a caller resolves, by their parts, and the texts of them
X == <<"x">>
Y == <<"y">>
Arn == <<"a", "r", "n">>
RefWords ==
    {<<ref_types[2], X>>, <<ref_types[2], X, Y>>, <<ref_types[2]>>,
     <<ref_types[3], X>>, <<ref_types[4], X>>, <<ref_types[5], X>>,
     <<netenv, X>>, <<<<"c", "o", "n", "f", "i", "g">>, X>>}
ResolveTexts == {aim_ref_sentinel \o join(w, ".") : w \in RefWords}

OwnValues == {Stack(TRUE), Stack(FALSE), YStr(Arn), YNone}

\* what a snapshot holds at the end of a path: a leaf, a leaf that records
\* None, an empty mapping, a scalar, a mapping with the sentinel key and more
Leaf(v) == YMap(<<Item(name_key, v)>>)
Ends ==
    {Leaf(YStr(Arn)), Leaf(YNone), YMap(<<>>), YStr(Arn),
     YMap(<<Item(name_key, YStr(Arn)), Item(Y, YMap(<<>>))>>)}
RECURSIVE Chain(_, _)
Chain(parts, end) ==
    IF parts = <<>> THEN end
    ELSE YMap(<<Item(Head(parts), Chain(Tail(parts), end))>>)
SnapshotPaths ==
    {<<ref_types[2]>>, <<ref_types[2], X>>, <<ref_types[2], X, Y>>,
     <<ref_types[2], Y>>, <<ref_types[3], X>>}
Snapshots ==
    {NoOutputsFile, OutputsFile(ref_types[2], YNone)}
    \cup {OutputsFile(p[1], Chain(p, e)) : p \in SnapshotPaths, e \in Ends}

ResolverIdle ==
    /\ o_pc = "idle"
    /\ o_ref_str = <<>>
    /\ o_project = [home |-> FALSE]
    /\ o_account_ctx = FALSE
    /\ o_value = YNone
    /\ o_outputs = NoOutputsFile
    /\ o_result = Returns(YNone)

ResolverInit ==
    /\ o_pc = "call"
    /\ o_ref_str \in ResolveTexts
    /\ o_project \in {[home |-> TRUE], [home |-> FALSE]}
    /\ o_account_ctx \in BOOLEAN
    /\ o_value \in OwnValues
    /\ o_outputs \in Snapshots
    /\ o_result = Returns(YNone)

\* resolve_ref(ref_str, project, account_ctx)
ResolveRef ==
    /\ o_pc = "call"
    /\ o_result' = resolve_ref(o_ref_str, o_project, o_account_ctx, o_value, o_outputs)
    /\ o_pc' = IF o_result'.exc # "" THEN "raised" ELSE "returned"
    /\ UNCHANGED <<o_ref_str, o_project, o_account_ctx, o_value, o_outputs>>
    /\ UNCHANGED notResolver

\* resolve_ref_outputs(ref, project_folder), called on a Reference
ResolveRefOutputs ==
    /\ o_pc = "call"
    /\ ~Reference_raises(o_ref_str)
    /\ o_result' = resolve_ref_outputs(Reference(o_ref_str), o_outputs)
    /\ o_pc' = IF o_result'.exc # "" THEN "outputs raised" ELSE "outputs"
    /\ UNCHANGED <<o_ref_str, o_project, o_account_ctx, o_value, o_outputs>>
    /\ UNCHANGED notResolver

ResolverNext == ResolveRef \/ ResolveRefOutputs

(***************************************************************************)
(* A load.  ModelLoader.load_all reads the version file, the project, the  *)
(* credentials and the configuration folders, of which the groups of one   *)
(* application stand here, and then the recorded outputs.  load_references *)
(* is a method of the loader that load_all does not call; a caller may     *)
(* call it on a loaded project.                                            *)
(***************************************************************************)
Versions == {<<1, 0>>, <<1, 1>>, <<2, 1>>}
NoVersionFile == <<>>
\* oct(os.stat(path).st_mode) of .credentials.yaml, "absent" when there is no
\* such file
CredentialModes == {"absent", "0o100400", "0o100644", "0o100440"}

Id == <<"i", "d">>
\* Outputs/NetworkEnvironments: the 'groups' of the application in a file
\* of the folder, None when there is no such folder
OutputsConfigs ==
    {YNone,
     YMap(<<Item("g", YMap(<<Item("resources",
         YMap(<<Item("r", YMap(<<Item("__name__", YStr(Id))>>))>>))>>))>>),
     YMap(<<Item("g", YMap(<<Item("resources",
         YMap(<<Item("r", YMap(<<Item("fullname", YMap(<<Item("__name__", YStr(Id))>>)),
                                Item("name", YMap(<<Item("__name__", YStr(Id))>>))>>))>>))>>))>>),
     YMap(<<Item("h", YMap(<<Item("resources", YMap(<<Item("q", YMap(<<>>))>>))>>))>>)}

\* two groups, the second with two resources of which the second gives the
\* certificate of its viewer_certificate, a reference field, a plain text
InvalidCertificate ==
    YMap(<<Item("f", YMap(<<Item("resources", YMap(<<Item("r", MinimalCloudFront)>>))>>)),
           Item("g", YMap(<<Item("resources",
               YMap(<<Item("q", MinimalCloudFront),
                      Item("r", YMap(TypeCloudFront \o <<Item("viewer_certificate",
                          YMap(<<Item("certificate", YStr(PlainText))>>))>>))>>))>>))>>)

\* the groups of the application: a CloudFront with or without attributes
\* that hold a reference, a group whose title is a reference, no group, a
\* resource with a key of no field, a resource with a value its field rejects
LoadAllConfigs ==
    {YMap(<<Item("g", YMap(title \o <<Item("resources",
            YMap(<<Item("r", YMap(TypeCloudFront \o webacl \o cert))>>))>>))>>) :
        title \in Opt("title", {YStr(RefText)}),
        webacl \in Opt("webacl_id", {YStr(PlainText), YStr(RefText)}),
        cert \in Opt("viewer_certificate",
                     {YMap(<<>>), YMap(<<Item("ssl_supported_method", YStr(RefText))>>),
                      YMap(<<Item("certificate", YStr(RefText))>>)})}
    \cup {YMap(<<>>),
          YMap(<<Item("g", YMap(<<Item("resources",
              YMap(<<Item("r", YMap(TypeCloudFront
                                     \o <<Item("bogus", YStr(PlainText))>>))>>))>>))>>),
          InvalidCertificate}

PermissionError(path) == [exc |-> "PermissionError", path |-> path, key |-> "", type |-> ""]

\* setattr(obj, name, value)
setattr(obj, name, value) ==
    [obj EXCEPT !.attrs = [n \in DOMAIN obj.attrs \cup {name} |->
                              IF n = name THEN value ELSE obj.attrs[n]]]

\* what a load does that a caller can observe from outside, in order: a file
\* it asks the mode of ("stat"), a file it opens ("open"), a pass it starts
\* ("call"), a reference it resolves ("resolve_ref")
Event(ev, what) == [ev |-> ev, what |-> what]
VersionFile == <<"", "aim-project-version.txt">>
ProjectFile == <<"", "project.yaml">>
CredentialsFile == <<"", ".credentials.yaml">>
NotificationGroupsFile == <<"MonitorConfig", "NotificationGroups.yaml">>
NetworkEnvironmentFile == <<"NetworkEnvironments", "ne.yaml">>
OutputsFolder == <<"Outputs/NetworkEnvironments", "ne-env-region.yaml">>

\* ModelLoader.read_aim_project_version: the error it raises
read_aim_project_version(version) ==
    IF version = NoVersionFile
    THEN InvalidAimProjectFile("aim-project-version.txt", "", "")
    ELSE NoError

\* the version check that looks at the major number only
check_aim_project_version_major(version, aim_models_version) ==
    IF version[1] # aim_models_version[1]
    THEN InvalidAimProjectFile("aim-project-version.txt", "", "version")
    ELSE NoError

\* ModelLoader.check_aim_project_version: the error it raises
check_aim_project_version(version, aim_models_version) ==
    IF version[1] # aim_models_version[1] \/ version[2] # aim_models_version[2]
    THEN InvalidAimProjectFile("aim-project-version.txt", "", "version")
    ELSE NoError

\* read_yaml that takes a credentials file the group can read too
read_yaml_group_readable(file, mode) ==
    IF file = CredentialsFile /\ mode \notin {"0o100400", "0o100440"}
    THEN [err |-> PermissionError(file[2]), trace |-> <<Event("stat", file)>>]
    ELSE [err |-> NoError,
          trace |-> (IF file = CredentialsFile THEN <<Event("stat", file)>> ELSE <<>>)
                        \o <<Event("open", file)>>]

\* ModelLoader.read_yaml(sub_dir, fname): file is the two, mode what
\* oct(os.stat(path).st_mode) is; the error raised and what it did to the file
read_yaml(file, mode) ==
    IF file = CredentialsFile /\ mode # "0o100400"
    THEN [err |-> PermissionError(file[2]), trace |-> <<Event("stat", file)>>]
    ELSE [err |-> NoError,
          trace |-> (IF file = CredentialsFile THEN <<Event("stat", file)>> ELSE <<>>)
                        \o <<Event("open", file)>>]

\* project.yaml, and the name it gives the project
ProjectName == "p"
ProjectConfig == YMap(<<Item("name", YStr(<<"p">>)), Item("title", YStr(PlainText))>>)
\* .credentials.yaml
CredentialsConfig == YMap(<<Item("aws_access_key_id", YStr(PlainText))>>)
\* 'Administrator Credentials', the title Project.__init__ gives its credentials
AdministratorCredentials ==
    <<"A", "d", "m", "i", "n", "i", "s", "t", "r", "a", "t", "o", "r", " ",
      "C", "r", "e", "d", "e", "n", "t", "i", "a", "l", "s">>

\* Project(name, None): the project and the Credentials it constructs and
\* holds under the key 'credentials'
Project(name) ==
    LET project == Named("Project", <<"project">>, name, ParentNone)
        credentials ==
            setattr(Named("Credentials", project.id \o <<"credentials">>, "credentials",
                          ParentNode(project.id)),
                    "title", YStr(AdministratorCredentials))
    IN  [project |-> [project EXCEPT !.items = <<Item("credentials", credentials.id)>>],
         credentials |-> credentials]

\* ModelLoader.instantiate_project(name, config): nodes are those of
\* self.project before, none when self.project is None; the error raised and
\* the nodes of self.project after
instantiate_project(name, config, nodes, read_file_path) ==
    LET new == Project(ProjectName)
        applied(obj, others) ==
            [err |-> obj.err, nodes |-> {obj.obj} \cup obj.nodes \cup others]
    IN  IF name = "project"
        THEN applied(apply_attributes_from_config(new.project, config, read_file_path),
                     {new.credentials})
        ELSE applied(apply_attributes_from_config(
                         node(nodes, <<"project", "credentials">>), config, read_file_path),
                     {n \in nodes : n.id # <<"project", "credentials">>})

\* self.project['notificationgroups']: whether the project has the key, and
\* the names of the groups under it
NoNotificationGroups == [present |-> FALSE, names |-> {}]
NotificationGroups(names) == [present |-> TRUE, names |-> names]

\* ModelLoader.instantiate_monitor_config('NotificationGroups', config)
instantiate_monitor_config(config) ==
    IF ~has_key(config, "groups")
    THEN [err |-> InvalidAimProjectFile("MonitorConfig/NotificationGroups.yaml",
                                        "groups", ""),
          notificationgroups |-> NotificationGroups({})]
    ELSE LET groups_config == config_get(config, "groups")
         IN  [err |-> NoError,
              notificationgroups |->
                  NotificationGroups({groups_config.v[i].key :
                                         i \in 1..Len(groups_config.v)})]

\* An application as check_notification_config sees it: what is_enabled()
\* answers and the alarms list_alarm_info() lists, each by its name and its
\* notification_groups
Alarm(name, notification_groups) ==
    [name |-> name, notification_groups |-> notification_groups]
Application(name, enabled, alarms) ==
    [name |-> name, enabled |-> enabled, alarms |-> alarms]

\* the check without its test for an enabled application
check_notification_config_all(notificationgroups, applications) ==
    LET named ==
            Concat([i \in 1..Len(applications) |->
                Concat([j \in 1..Len(applications[i].alarms) |->
                    [k \in 1..Len(applications[i].alarms[j].notification_groups) |->
                        [alarm |-> applications[i].alarms[j].name,
                         group |-> applications[i].alarms[j].notification_groups[k]]]])])
        bad == {i \in 1..Len(named) : named[i].group \notin notificationgroups.names}
    IN  IF notificationgroups.present /\ bad # {}
        THEN InvalidAimProjectFile("", named[SetMin(bad)].group, named[SetMin(bad)].alarm)
        ELSE NoError

\* ModelLoader.check_notification_config: the error it raises.  applications
\* is what self.project.get_all_applications() returns.
check_notification_config(notificationgroups, applications) ==
    LET named ==
            Concat([i \in 1..Len(applications) |->
                IF ~applications[i].enabled THEN <<>>
                ELSE Concat([j \in 1..Len(applications[i].alarms) |->
                    [k \in 1..Len(applications[i].alarms[j].notification_groups) |->
                        [alarm |-> applications[i].alarms[j].name,
                         group |-> applications[i].alarms[j].notification_groups[k]]]])])
        bad == {i \in 1..Len(named) : named[i].group \notin notificationgroups.names}
    IN  IF notificationgroups.present /\ bad # {}
        THEN InvalidAimProjectFile("", named[SetMin(bad)].group, named[SetMin(bad)].alarm)
        ELSE NoError

\* loader.py:807-819, for one resource of the outputs
load_output(resource, resource_config) ==
    LET named ==
            IF has_key(resource_config, "name")
            THEN setattr(resource, "resource_name",
                         config_get(config_get(resource_config, "name"), "__name__"))
            ELSE IF has_key(resource_config, "__name__")
            THEN setattr(resource, "resource_name", config_get(resource_config, "__name__"))
            ELSE resource
    IN  IF has_key(resource_config, "fullname")
        THEN setattr(named, "resource_fullname",
                     config_get(config_get(resource_config, "fullname"), "__name__"))
        ELSE named

\* ModelLoader.load_outputs over the groups of the application
load_outputs(nodes, groups_config) ==
    IF groups_config = YNone THEN [err |-> NoError, nodes |-> nodes]
    ELSE LET recorded ==
                 Concat([g \in 1..Len(groups_config.v) |->
                     LET resources == config_get(groups_config.v[g].val, "resources")
                     IN  [r \in 1..Len(resources.v) |->
                             [id |-> <<groups_config.v[g].key, "resources",
                                       resources.v[r].key>>,
                              key |-> resources.v[r].key,
                              config |-> resources.v[r].val]]])
             ids == {n.id : n \in nodes}
             missing == {i \in 1..Len(recorded) : recorded[i].id \notin ids}
             of(n) == {i \in 1..Len(recorded) : recorded[i].id = n.id}
         IN  IF missing # {}
             THEN [err |-> KeyError(recorded[SetMin(missing)].key), nodes |-> nodes]
             ELSE [err |-> NoError,
                   nodes |-> {IF of(n) = {} THEN n
                              ELSE load_output(n, recorded[SetMin(of(n))].config) :
                              n \in nodes}]

\* Loader methods a load starts one after the other
Call(name) == Event("call", <<"ModelLoader", name>>)
\* '{}.{}'.format(major, medium), for numbers of one digit
Digits == <<"0", "1", "2", "3", "4", "5", "6", "7", "8", "9">>
format_version(version) == <<Digits[version[1] + 1], ".", Digits[version[2] + 1]>>

\* ModelLoader.load_core_monitoring: no resource of the family is an ASG, the
\* walk over the nodes is all it does
load_core_monitoring(nodes) ==
    LET walked(walk) == IF walk.err = "" THEN NoError ELSE TypeError
    IN  walked(get_all_nodes(nodes, <<res_groups.id>>, <<>>))

\* ModelLoader.load_all.  installed is the version of aim.models, version
\* what aim-project-version.txt declares, credentials the mode of
\* .credentials.yaml, groups_config the groups of the application of the
\* one document of NetworkEnvironments, outputs_config those of the recorded
\* outputs, monitor the NotificationGroups document of MonitorConfig and the
\* applications as the consistency check sees them.  The folders Accounts,
\* Resources and Services hold no document.  The result: the error raised,
\* whether self.project is set, the nodes in self.project, and what was done.
load_all(installed, version, credentials, groups_config, outputs_config, monitor) ==
    LET Start == [err |-> NoError, project |-> FALSE, nodes |-> {},
                  notificationgroups |-> NoNotificationGroups, trace |-> <<>>]
        \* loader.py:702
        read_version(s) ==
            [s EXCEPT !.err = read_aim_project_version(version),
                      !.trace = IF version = NoVersionFile THEN @
                                ELSE Append(@, Event("open", VersionFile))]
        \* loader.py:703
        check_version(s) ==
            [s EXCEPT !.err = check_aim_project_version(version, installed)]
        \* loader.py:704-705
        project_yaml(s) ==
            CHOOSE after \in
                {[s EXCEPT !.err = p.err, !.project = TRUE,
                           !.nodes = {IF n.cls = "Project" /\ p.err = NoError
                                      THEN setattr(n, "aim_project_version",
                                                   YStr(format_version(version)))
                                      ELSE n : n \in p.nodes},
                           !.trace = @ \o read_yaml(ProjectFile, "").trace] :
                 p \in {instantiate_project("project", ProjectConfig, {},
                                            "project.yaml")}} : TRUE
        \* loader.py:707-708
        credentials_yaml(s) ==
            LET read == read_yaml(CredentialsFile, credentials) IN
            IF credentials = "absent" THEN s
            ELSE IF read.err # NoError
            THEN [s EXCEPT !.err = read.err, !.trace = @ \o read.trace]
            ELSE CHOOSE after \in
                     {[s EXCEPT !.err = c.err, !.nodes = c.nodes,
                                !.trace = @ \o read.trace] :
                      c \in {instantiate_project(".credentials", CredentialsConfig,
                                                 s.nodes, ".credentials.yaml")}} : TRUE
        \* loader.py:709-717, subdir 'MonitorConfig'
        monitor_config(s) ==
            IF monitor.document = YNone THEN s
            ELSE CHOOSE after \in
                     {[s EXCEPT !.err = m.err,
                                !.notificationgroups = m.notificationgroups,
                                !.trace = @ \o read_yaml(NotificationGroupsFile, "").trace] :
                      m \in {instantiate_monitor_config(monitor.document)}} : TRUE
        \* loader.py:709-717, subdir 'NetworkEnvironments'
        network_environments(s) ==
            CHOOSE after \in
                {[s EXCEPT !.err = built.err,
                           !.nodes = @ \cup built.nodes \cup {built.obj},
                           !.trace = @ \o read_yaml(NetworkEnvironmentFile, "").trace] :
                 built \in {load_resources(res_groups, groups_config, ReadFilePath)}} : TRUE
        \* loader.py:718
        services(s) == [s EXCEPT !.trace = Append(@, Call("instantiate_services"))]
        \* loader.py:719
        notification_config(s) ==
            [s EXCEPT !.err = check_notification_config(s.notificationgroups,
                                                        monitor.applications),
                      !.trace = Append(@, Call("check_notification_config"))]
        \* loader.py:722
        outputs_loaded(s) ==
            CHOOSE after \in
                {[s EXCEPT !.err = o.err, !.nodes = o.nodes,
                           !.trace = Append(@, Call("load_outputs"))
                               \o (IF outputs_config = YNone THEN <<>>
                                   ELSE read_yaml(OutputsFolder, "").trace)] :
                 o \in {load_outputs(s.nodes, outputs_config)}} : TRUE
        \* loader.py:723
        core_monitoring(s) ==
            [s EXCEPT !.err = load_core_monitoring(s.nodes),
                      !.trace = Append(@, Call("load_core_monitoring"))]
        \* a statement runs on what the one before left, unless that raised
        run(before, step(_)) == IF before.err # NoError THEN before ELSE step(before)
    IN  CHOOSE s10 \in {run(s9, core_monitoring) : s9 \in
               {run(s8, outputs_loaded) : s8 \in
               {run(s7, notification_config) : s7 \in
               {run(s6, services) : s6 \in
               {run(s5, network_environments) : s5 \in
               {run(s4, monitor_config) : s4 \in
               {run(s3, credentials_yaml) : s3 \in
               {run(s2, project_yaml) : s2 \in
               {run(s1, check_version) : s1 \in
               {read_version(Start)}}}}}}}}}} : TRUE

\* the '_ref_' attributes load_references meets, in the order it meets them
deferred(nodes, visited) ==
    Concat([i \in 1..Len(visited) |->
        LET model == node(nodes, visited[i])
            fs == Fields(model.cls)
            idx == {j \in 1..Len(fs) : fs[j].name \in DOMAIN model.refs}
            nth(k) == CHOOSE j \in idx : Cardinality({h \in idx : h < j}) = k - 1
        IN  [k \in 1..Cardinality(idx) |->
                [id |-> model.id, name |-> fs[nth(k)].name,
                 ref_str |-> model.refs[fs[nth(k)].name].v]]])

\* ModelLoader.load_references; value and outputs are what the targets of
\* the references answer and what the Outputs folder holds
load_references(nodes, value, outputs) ==
    LET \* refs: the '_ref_' attributes met; values: what resolve_ref
        \* answered for each; upto: the last one before an exception
        stored(refs, values, upto) ==
            LET of(n) == {i \in 1..upto : refs[i].id = n.id}
                set(n) == [n EXCEPT !.attrs =
                              [a \in DOMAIN n.attrs \cup {refs[i].name : i \in of(n)} |->
                                  IF \E i \in of(n) : refs[i].name = a
                                  THEN values[CHOOSE i \in of(n) : refs[i].name = a].value
                                  ELSE n.attrs[a]]]
                called == IF upto = Len(refs) THEN upto ELSE upto + 1
            IN  [exc |-> IF upto = Len(refs) THEN "" ELSE values[upto + 1].exc,
                 nodes |-> {set(n) : n \in nodes},
                 resolved |-> {<<refs[i].id, refs[i].name>> : i \in 1..upto},
                 trace |-> [i \in 1..called |->
                               Event("resolve_ref", <<"_ref_", refs[i].name>>)]]
        resolved(refs, values) ==
            stored(refs, values,
                   IF \A i \in 1..Len(refs) : values[i].exc = "" THEN Len(refs)
                   ELSE SetMin({i \in 1..Len(refs) : values[i].exc # ""}) - 1)
        visited(refs) ==
            resolved(refs, [i \in 1..Len(refs) |->
                resolve_ref(refs[i].ref_str, [home |-> TRUE], FALSE, value, outputs)])
        walked(walk) ==
            IF walk.err # ""
            THEN [exc |-> walk.err, nodes |-> nodes, resolved |-> {}, trace |-> <<>>]
            ELSE visited(deferred(nodes, walk.nodes))
    IN  walked(get_all_nodes(nodes, <<res_groups.id>>, <<>>))

\* MonitorConfig/NotificationGroups.yaml: no such file, a document without
\* the top-level 'groups', one that declares no group, one that declares 'ops'
NotificationDocuments ==
    {YNone, YMap(<<>>), YMap(<<Item("groups", YMap(<<>>))>>),
     YMap(<<Item("groups", YMap(<<Item("ops", YMap(<<>>))>>))>>)}
\* the alarms of the application: none; one that notifies nobody, 'ops',
\* 'ops' and 'dev'; two of which the second notifies 'dev'
AlarmLists ==
    {<<>>, <<Alarm("cpu", <<>>)>>, <<Alarm("cpu", <<"ops">>)>>,
     <<Alarm("cpu", <<"ops", "dev">>)>>,
     <<Alarm("cpu", <<"ops">>), Alarm("disk", <<"dev">>)>>}
Monitor(document, applications) == [document |-> document, applications |-> applications]
NoMonitor == Monitor(YNone, <<Application("app", TRUE, <<>>)>>)
Monitors ==
    {Monitor(document, <<Application("app", enabled, alarms)>>) :
        document \in NotificationDocuments, enabled \in BOOLEAN, alarms \in AlarmLists}

LoadAllIdle ==
    /\ a_pc = "idle"
    /\ a_installed = <<>>
    /\ a_version = NoVersionFile
    /\ a_credentials = "absent"
    /\ a_config = YNone
    /\ a_outputs = YNone
    /\ a_nodes = {}
    /\ a_error = NoError
    /\ a_resolved = {}
    /\ a_monitor = NoMonitor
    /\ a_project = FALSE
    /\ a_notificationgroups = NoNotificationGroups
    /\ a_trace = <<>>

\* the loader after ModelLoader(config_folder), and the project folder: any
\* configuration with no monitoring, or any monitoring with one configuration
LoadAllInit ==
    /\ a_pc = "start"
    /\ \/ /\ a_installed \in Versions
          /\ a_version \in Versions \cup {NoVersionFile}
          /\ a_credentials \in CredentialModes
          /\ a_config \in LoadAllConfigs
          /\ a_outputs \in OutputsConfigs
          /\ a_monitor = NoMonitor
       \/ /\ a_installed = <<1, 0>>
          /\ a_version = <<1, 0>>
          /\ a_credentials \in {"absent", "0o100400"}
          /\ a_config = YMap(<<Item("g", YMap(<<Item("resources",
                             YMap(<<Item("r", MinimalCloudFront)>>))>>))>>)
          /\ a_outputs = YNone
          /\ a_monitor \in Monitors
    /\ a_nodes = {}
    /\ a_error = NoError
    /\ a_resolved = {}
    /\ a_project = FALSE
    /\ a_notificationgroups = NoNotificationGroups
    /\ a_trace = <<>>

\* ModelLoader.load_all()
LoadAll ==
    /\ a_pc = "start"
    /\ \E loaded \in {load_all(a_installed, a_version, a_credentials, a_config,
                                a_outputs, a_monitor)} :
           /\ a_pc' = IF loaded.err # NoError THEN "raised" ELSE "loaded"
           /\ a_error' = loaded.err
           /\ a_nodes' = loaded.nodes
           /\ a_project' = loaded.project
           /\ a_notificationgroups' = loaded.notificationgroups
           /\ a_trace' = loaded.trace
    /\ UNCHANGED <<a_installed, a_version, a_credentials, a_config, a_outputs,
                   a_resolved, a_monitor>>
    /\ UNCHANGED notLoadAll

\* ModelLoader.load_references(), called on a loaded project
LoadReferences ==
    /\ a_pc = "loaded"
    /\ \E value \in OwnValues, outputs \in {NoOutputsFile,
                                           OutputsFile(ref_types[2], Chain(<<ref_types[2], X>>, Leaf(YStr(Arn))))} :
          \E done \in {load_references(a_nodes, value, outputs)} :
              /\ a_pc' = IF done.exc # "" THEN "references raised" ELSE "resolved"
              /\ a_nodes' = done.nodes
              /\ a_resolved' = done.resolved
              /\ a_trace' = Append(a_trace, Call("load_references")) \o done.trace
    /\ UNCHANGED <<a_installed, a_version, a_credentials, a_config, a_outputs, a_error,
                   a_monitor, a_project, a_notificationgroups>>
    /\ UNCHANGED notLoadAll

LoadAllNext == LoadAll \/ LoadReferences

(***************************************************************************)
(* A security group rule and its invariant.  from_port, to_port and port   *)
(* are Int fields whose default, -1, stands for a field that is not set.   *)
(***************************************************************************)
MaxPort == 3
\* schemas.py:535-558: the default of from_port, to_port and port
PortDefault == -1
Ports == PortDefault..MaxPort

\* a rule whose invariant passes: the function returns, None
Valid == "None"
\* Invalid(message), by the fields its message names
Invalid(message) == message

\* the invariant without its two elif branches
to_from_or_port_port_only(obj) ==
    IF obj.port # PortDefault /\ (obj.to_port # PortDefault \/ obj.from_port # PortDefault)
    THEN Invalid("Both 'port' and 'to_port/from_port' must not have values.")
    ELSE Valid

\* ISecurityGroupRule.to_from_or_port
to_from_or_port(obj) ==
    IF obj.port # PortDefault /\ (obj.to_port # PortDefault \/ obj.from_port # PortDefault)
    THEN Invalid("Both 'port' and 'to_port/from_port' must not have values.")
    ELSE IF obj.to_port = PortDefault /\ obj.from_port # PortDefault
    THEN Invalid("The 'from_port' field must not be blank when 'to_port' has a value.")
    ELSE IF obj.from_port = PortDefault /\ obj.to_port # PortDefault
    THEN Invalid("The 'to_port' field must not be blank when 'from_port' has a value.")
    ELSE Valid

RuleIdle ==
    /\ g_pc = "idle"
    /\ g_rule = [from_port |-> PortDefault, to_port |-> PortDefault, port |-> PortDefault]
    /\ g_invalid = Valid

RuleInit ==
    /\ g_pc = "rule"
    /\ g_rule \in [from_port : Ports, to_port : Ports, port : Ports]
    /\ g_invalid = Valid

\* validateInvariants of the rule: its one invariant
ValidateInvariants ==
    /\ g_pc = "rule"
    /\ g_invalid' = to_from_or_port(g_rule)
    /\ g_pc' = IF g_invalid' = Valid THEN "passed" ELSE "failed"
    /\ UNCHANGED g_rule
    /\ UNCHANGED notRule

RuleNext == ValidateInvariants

(***************************************************************************)
(* The tiers of a network environment document.  An item (an application)  *)
(* has a base definition under the top-level 'applications', and may be    *)
(* configured under environments.<env>.default.applications and under      *)
(* environments.<env>.<region>.applications.  The values are those of the  *)
(* merge component.                                                        *)
(***************************************************************************)
\* the names of the items, in the order the document lists them
ItemNames == <<"app", "web">>
\* what a lookup that raised KeyError leaves in place of a value
Missing == [k |-> "missing", own |-> "-", v |-> 0]
\* a map of one key; the map without a key
OneKey(key, val) == Dict("-", [j \in {key} |-> val])
NoKey == Dict("-", EmptyMap)
\* the configuration an item has in a tier
ItemConfigs == {Dict("-", f) : f \in MapsOver(InnerKeys, InnerLeaves)}
WebConfig == OneKey("x", Num(1))
\* the 'applications' of a tier: of the application alone, of both, of the
\* other item alone
TierApplications ==
    {Dict("-", [j \in {"app"} |-> c]) : c \in ItemConfigs}
        \cup {Dict("-", [j \in {"app", "web"} |-> IF j = "app" THEN c ELSE WebConfig]) :
                 c \in ItemConfigs}
        \cup {OneKey("web", WebConfig)}
\* a tier: without 'applications', or with
Tiers == {NoKey} \cup {OneKey("applications", apps) : apps \in TierApplications}

\* the keys of a map that merge made of two, in the order of dict(base)
\* followed by the keys override added
merged_keys(base, override) ==
    LET in_base(j) == j \in DOMAIN base.v
        added(j) == j \in DOMAIN override.v /\ j \notin DOMAIN base.v
    IN  SelectSeq(ItemNames, in_base) \o SelectSeq(ItemNames, added)

\* ModelLoader.instantiate_env_region_config.  names are the keys of
\* env_region_config[config_name] in their order; the result: the error
\* raised and the item_config each item saved before it was loaded with
instantiate_env_region_config(config_name, env_region_config, env_region_name, names, env_default, global_config) ==
    IF config_name \notin DOMAIN env_region_config.v
    THEN [err |-> NoError, items |-> EmptyMap]
    ELSE LET global_item_config == global_config.v[config_name]
             local(item_name) == env_region_config.v[config_name].v[item_name]
             \* loader.py:1190-1206: the item_config of the item, Missing for
             \* a KeyError
             item_config(item_name) ==
                 IF item_name \notin DOMAIN global_item_config.v THEN Missing
                 ELSE IF env_region_name = "default"
                 THEN merge(global_item_config.v[item_name], local(item_name))
                 ELSE IF config_name \in DOMAIN env_default.v
                 THEN IF item_name \notin DOMAIN env_default.v[config_name].v THEN Missing
                      ELSE merge(merge(global_item_config.v[item_name],
                                       env_default.v[config_name].v[item_name]),
                                 local(item_name))
                 ELSE merge(global_item_config.v[item_name], local(item_name))
             failing == {i \in 1..Len(names) : item_config(names[i]).k = Missing.k}
             upto == IF failing = {} THEN Len(names) ELSE SetMin(failing) - 1
         IN  [err |-> IF failing = {} THEN NoError ELSE KeyError(names[upto + 1]),
              items |-> [j \in {names[i] : i \in 1..upto} |-> item_config(j)]]

\* the 'applications' of a tier, without a key if it has none
applications_of(tier) ==
    IF "applications" \in DOMAIN tier.v THEN tier.v["applications"] ELSE NoKey

\* ModelLoader.instantiate_network_environments, for the applications of
\* one environment with its default tier and one region.  same_object is
\* what "env_reg_name is not 'default'" answers for the default tier, which
\* depends on whether the two equal texts are one object.
instantiate_network_environments(config, same_object) ==
    LET env_default == config.default
        env_reg_config == config.region
        global_config == OneKey("applications", config.applications)
        default_tier ==
            instantiate_env_region_config(
                "applications",
                IF same_object THEN env_default ELSE merge(env_default, env_default),
                "default",
                merged_keys(applications_of(env_default), NoKey),
                env_default, global_config)
        region_tier ==
            instantiate_env_region_config(
                "applications", merge(env_default, env_reg_config), "region",
                merged_keys(applications_of(env_default), applications_of(env_reg_config)),
                env_default, global_config)
    IN  IF default_tier.err # NoError
        THEN [err |-> default_tier.err, default |-> default_tier.items,
              region |-> EmptyMap]
        ELSE [err |-> region_tier.err, default |-> default_tier.items,
              region |-> region_tier.items]

EnvRegionIdle ==
    /\ e_pc = "idle"
    /\ e_config = [applications |-> NoKey, default |-> NoKey, region |-> NoKey]
    /\ e_default = EmptyMap
    /\ e_region = EmptyMap
    /\ e_error = NoError

\* every item a tier configures has a base definition
EnvRegionInit ==
    /\ e_pc = "config"
    /\ e_config \in
          {[applications |->
                Dict("-", [j \in {"app", "web"} |-> IF j = "app" THEN c ELSE WebConfig]),
            default |-> d, region |-> r] :
           c \in ItemConfigs, d \in Tiers, r \in Tiers}
    /\ e_default = EmptyMap
    /\ e_region = EmptyMap
    /\ e_error = NoError

\* instantiate_network_environments(name, config)
InstantiateNetworkEnvironments ==
    /\ e_pc = "config"
    /\ \E same_object \in BOOLEAN :
          \E done \in {instantiate_network_environments(e_config, same_object)} :
              /\ e_pc' = IF done.err # NoError THEN "raised" ELSE "loaded"
              /\ e_error' = done.err
              /\ e_default' = done.default
              /\ e_region' = done.region
    /\ UNCHANGED e_config
    /\ UNCHANGED notEnvRegion

EnvRegionNext == InstantiateNetworkEnvironments

(***************************************************************************)
(* The places that select a class by the 'type' of a configuration:        *)
(* load_resources, ModelLoader.load_iam_group and                          *)
(* instantiate_iam_user_permissions.                                       *)
(***************************************************************************)
\* the functions that select a class by 'type', and a type each of them knows
TypeSites == {"load_resources", "load_iam_group", "instantiate_iam_user_permissions"}
KnownType(site) ==
    IF site = "instantiate_iam_user_permissions" THEN YStr(AdministratorText)
    ELSE YStr(CloudFrontText)
\* the items handed to a site: one or two, each with a type the site knows,
\* with a type no class map knows, or without a type; with a title or not
TypedItems(site) ==
    LET configs == {YMap(type \o title \o accounts) :
                       type \in Opt("type", {KnownType(site), YStr(BogusText)}),
                       title \in Opt("title", {YStr(PlainText)}),
                       accounts \in IF site = "instantiate_iam_user_permissions"
                                    THEN Opt("accounts", {YStr(PlainText)})
                                    ELSE {<<>>}}
    IN  {YMap(<<Item("r", c)>>) : c \in configs}
            \cup {YMap(<<Item("r", c), Item("q", d)>>) : c \in configs, d \in configs}

TypesIdle ==
    /\ t_pc = "idle"
    /\ t_call = [site |-> "", items |-> YNone, read_file_path |-> ""]
    /\ t_nodes = {}
    /\ t_error = NoError

TypesInit ==
    /\ t_pc = "config"
    /\ \E site \in TypeSites :
          t_call \in {[site |-> site, items |-> items, read_file_path |-> ReadFilePath] :
                         items \in TypedItems(site)}
    /\ t_nodes = {}
    /\ t_error = NoError

\* load_resources(res_groups, groups_config, read_file_path = ...), the
\* items being the resources of the one group g
LoadApplicationResources ==
    /\ t_pc = "config"
    /\ t_call.site = "load_resources"
    /\ \E built \in {load_resources(res_groups,
                         YMap(<<Item("g", YMap(<<Item("resources", t_call.items)>>))>>),
                         t_call.read_file_path)} :
          /\ t_pc' = IF built.err # NoError THEN "raised" ELSE "loaded"
          /\ t_error' = built.err
          /\ t_nodes' = built.nodes \cup {built.obj}
    /\ UNCHANGED t_call
    /\ UNCHANGED notTypes

\* self.load_iam_group(item.groups, item_config), the items being the
\* resources of the one group g
LoadIamGroup ==
    /\ t_pc = "config"
    /\ t_call.site = "load_iam_group"
    /\ \E built \in {load_iam_group(res_groups,
                         YMap(<<Item("groups", YMap(<<Item("g",
                             YMap(<<Item("resources", t_call.items)>>))>>))>>),
                         t_call.read_file_path)} :
          /\ t_pc' = IF built.err # NoError THEN "raised" ELSE "loaded"
          /\ t_error' = built.err
          /\ t_nodes' = built.nodes
    /\ UNCHANGED t_call
    /\ UNCHANGED notTypes

\* instantiate_iam_user_permissions(value, obj, read_file_path), the items
\* being the permissions of the user u
InstantiateIamUserPermissions ==
    /\ t_pc = "config"
    /\ t_call.site = "instantiate_iam_user_permissions"
    /\ \E built \in {instantiate_iam_user_permissions(
                         t_call.items, Named("", <<"u">>, "u", ParentNone),
                         t_call.read_file_path)} :
          /\ t_pc' = IF built.err # NoError THEN "raised" ELSE "loaded"
          /\ t_error' = built.err
          /\ t_nodes' = built.nodes
    /\ UNCHANGED t_call
    /\ UNCHANGED notTypes

TypesNext == LoadApplicationResources \/ LoadIamGroup \/ InstantiateIamUserPermissions

(***************************************************************************)
(* The generic descent of the resolver, get_resolve_ref_obj.  The objects  *)
(* under the one the descent starts at are known by their path of names:   *)
(* items are the keyed children of a container, nodes the model objects    *)
(* held as attributes, ints, lists and strs the plain values held as       *)
(* attributes, and resolvers the objects that have a resolve_ref method.   *)
(***************************************************************************)
MaxTail == 3
S3 == <<"s", "3">>

Obj(kind, path) == [k |-> kind, at |-> path]
PyNone == Obj("none", <<>>)

\* obj[part], and on TypeError or KeyError getattr(obj, part, None)
next_obj_of(graph, obj, part) ==
    LET path == Append(obj.at, part) IN
    IF obj.k # "node" THEN PyNone
    ELSE IF path \in graph.items \cup graph.nodes THEN Obj("node", path)
    ELSE IF path \in graph.ints THEN Obj("int", path)
    ELSE IF path \in graph.lists THEN Obj("list", path)
    ELSE IF path \in graph.strs THEN Obj("str", path)
    ELSE PyNone

\* references.py:157-165, the loop from part_idx (counted from 0) on: the
\* object it ends at and the value part_idx is left with
RECURSIVE descend(_, _, _, _)
descend(graph, obj, ref, part_idx) ==
    LET next_obj == next_obj_of(graph, obj, ref.parts[part_idx + 1]) IN
    IF next_obj.k # "none" /\ next_obj.k # "str"
    THEN IF part_idx + 1 < Len(ref.parts)
         THEN descend(graph, next_obj, ref, part_idx + 1)
         ELSE [obj |-> next_obj, part_idx |-> part_idx]
    ELSE [obj |-> obj, part_idx |-> part_idx]

Descended(exc, obj, resource_ref) ==
    [exc |-> exc, resource |-> obj, resource_ref |-> resource_ref]

\* references.get_resolve_ref_obj(obj, ref, part_idx_start): what it raises,
\* and ref.resource and ref.resource_ref as it leaves them.  A range without
\* any index leaves part_idx unbound, and reading it raises UnboundLocalError
get_resolve_ref_obj(graph, obj, ref, part_idx_start) ==
    IF part_idx_start >= Len(ref.parts)
    THEN Descended("UnboundLocalError", PyNone, <<>>)
    ELSE LET at_end == descend(graph, obj, ref, part_idx_start)
             resource_ref == join(SubSeq(ref.parts, at_end.part_idx + 1,
                                         Len(ref.parts)), ".")
         IN  IF at_end.obj.at \notin graph.resolvers
             THEN Descended("InvalidAimReference", at_end.obj, resource_ref)
             ELSE Descended("", at_end.obj, resource_ref)

\* the buckets of a project: project['s3'] and what lies under it
Graph(items, nodes, ints, lists, strs, resolvers) ==
    [items |-> items, nodes |-> nodes, ints |-> ints, lists |-> lists,
     strs |-> strs, resolvers |-> resolvers]
Graphs ==
    {Graph({<<X>>, <<X, Y>>}, {}, {}, {}, {<<X, Y, Arn>>, <<X, Arn>>},
           {<<>>, <<X>>, <<X, Y>>}),
     Graph({<<X>>}, {<<X, Y>>, <<X, Y, X>>}, {<<X, Arn>>}, {}, {<<X, Y, Arn>>},
           {<<>>, <<X>>, <<X, Y>>, <<X, Y, X>>}),
     Graph({<<X>>, <<Y>>}, {<<Y, X>>}, {<<X, Y>>}, {<<Y, Y>>}, {<<Y, Arn>>},
           {<<X>>, <<Y>>}),
     Graph({}, {}, {<<X>>}, {<<Y>>}, {<<Arn>>}, {<<>>})}
\* 'aim.ref resource.s3' and up to MaxTail further parts
DescentTexts ==
    {aim_ref_sentinel \o join(<<ref_types[2], S3>> \o tail, ".") :
        tail \in SeqsOf({X, Y, Arn}, MaxTail)}

DescentIdle ==
    /\ d_pc = "idle"
    /\ d_graph = Graph({}, {}, {}, {}, {}, {})
    /\ d_ref_str = <<>>
    /\ d_result = Descended("", PyNone, <<>>)

DescentInit ==
    /\ d_pc = "call"
    /\ d_graph \in Graphs
    /\ d_ref_str \in DescentTexts
    /\ d_result = Descended("", PyNone, <<>>)

\* resolve_ref, references.py:211-212:
\* get_resolve_ref_obj(project['s3'], ref, part_idx_start=2)
GetResolveRefObj ==
    /\ d_pc = "call"
    /\ d_result' = get_resolve_ref_obj(d_graph, Obj("node", <<>>),
                                        Reference(d_ref_str), 2)
    /\ d_pc' = IF d_result'.exc # "" THEN "raised" ELSE "returned"
    /\ UNCHANGED <<d_graph, d_ref_str>>
    /\ UNCHANGED notDescent

DescentNext == GetResolveRefObj

(***************************************************************************)
(* Inserting the environment and the region into netenv references:        *)
(* ModelLoader.insert_env_ref_str, for a text that is a reference, and      *)
(* ModelLoader.insert_env_ref_aim_sub, for an 'aim.sub' template whose      *)
(* ${...} spans hold references.  Indices are Python's: they count from 0,  *)
(* and a slice s[a:b] ends before b.                                        *)
(***************************************************************************)
MaxSpans == 2

aim_sub == <<"a", "i", "m", ".", "s", "u", "b">>
netenv_ref == aim_ref_sentinel \o netenv \o <<".">>

\* s.find(sub, start, end): the lowest index in s[start:end] at which sub
\* lies in s[start:end], -1 when there is none
str_find(s, sub, start, end) ==
    LET stop == Min(end, Len(s))
        found == {i \in start..(stop - Len(sub)) : SubSeq(s, i + 1, i + Len(sub)) = sub}
    IN  IF found = {} THEN -1 ELSE SetMin(found)
\* s[a:b]
slice(s, a, b) == SubSeq(s, a + 1, Min(b, Len(s)))
\* s.replace(old, new, 1)
replace(s, old, new) ==
    LET i == str_find(s, old, 0, Len(s)) IN
    IF i = -1 THEN s
    ELSE SubSeq(s, 1, i) \o new \o SubSeq(s, i + Len(old) + 1, Len(s))
\* list.insert(i, x)
insert(list, i, x) ==
    SubSeq(list, 1, Min(i, Len(list))) \o <<x>>
        \o SubSeq(list, Min(i, Len(list)) + 1, Len(list))

Returned(value) == [exc |-> "", value |-> value]
Throws(exc) == [exc |-> exc, value |-> <<>>]

\* ModelLoader.insert_env_ref_str(str_value, env_id, region), loader.py:920-939,
\* for a text that does not start with 'aim.sub ' (such a text goes to
\* insert_env_ref_aim_sub, loader.py:924-925)
insert_env_ref_str(str_value, env_id, region) ==
    IF str_find(str_value, netenv_ref, 0, Len(str_value)) = -1
    THEN Returned(str_value)
    ELSE IF Reference_raises(str_value) THEN Throws("IndexError")
    ELSE IF /\ Reference(str_value).type = netenv
            /\ Reference(str_value).parts[3] = env_id
            /\ Reference(str_value).parts[4] = region
    THEN Returned(str_value)
    ELSE Returned(aim_ref_sentinel
                    \o join(insert(insert(Reference(str_value).parts, 2, env_id),
                                   3, region), "."))

\* loader.py:876-889: the indices insert_env_ref_aim_sub starts its loop
\* with, or what it returns or raises before the loop
Looping(str_idx, end_str_idx, first_pass) ==
    [str_idx |-> str_idx, end_str_idx |-> end_str_idx, first_pass |-> first_pass]
NotLooping == Looping(0, 0, TRUE)
isolate_quoted(str_value) ==
    LET sub_idx == str_find(str_value, aim_sub, 0, Len(str_value))
        newline_idx == str_find(str_value, <<"\n">>, sub_idx, Len(str_value))
        end_idx == IF newline_idx = -1 THEN Len(str_value) ELSE newline_idx
        str_idx == str_find(str_value, <<"'">>, sub_idx, end_idx)
        end_str_idx == str_find(str_value, <<"'">>, str_idx + 1, end_idx)
    IN  IF sub_idx = -1 THEN [exc |-> "", done |-> TRUE, loop |-> NotLooping]
        ELSE IF str_idx = -1
        THEN [exc |-> "StackException", done |-> TRUE, loop |-> NotLooping]
        ELSE IF end_str_idx = -1
        THEN [exc |-> "StackException", done |-> TRUE, loop |-> NotLooping]
        ELSE [exc |-> "", done |-> FALSE,
              loop |-> Looping(str_idx + 1, end_str_idx, TRUE)]

\* The texts.  A reference is 'aim.ref netenv.n.' and a path, which starts
\* with the environment and the region when the reference carries them; a
\* span is '${' reference '}', or '${x}'; a template is
\* "aim.sub '" span '-' span ... "'"
EnvIds == {<<"e">>, <<"d", "e", "v">>}
Regions == {<<"r">>}
SpanKinds == {"a.b", "c.d", "x", "carried"}
ref_text(kind, env_id, region) ==
    CASE kind = "a.b" -> netenv_ref \o <<"n", ".", "a", ".", "b">>
      [] kind = "c.d" -> netenv_ref \o <<"n", ".", "c", ".", "d">>
      [] kind = "a" -> netenv_ref \o <<"n", ".", "a">>
      [] kind = "carried" -> netenv_ref \o <<"n", ".">> \o env_id \o <<".">> \o region
                                \o <<".", "a", ".", "b">>
      [] OTHER -> <<"x">>
span_text(kind, env_id, region) == <<"$", "{">> \o ref_text(kind, env_id, region) \o <<"}">>
template_text(spans, env_id, region) ==
    aim_sub \o <<" ", "'">>
        \o join([i \in 1..Len(spans) |-> span_text(spans[i], env_id, region)], "-")
        \o <<"'">>
\* texts that are no template: no 'aim.sub', no quote, one quote, no span
NoTemplates == {<<"x">>, aim_sub \o <<" ", "x">>, aim_sub \o <<" ", "'", "x">>,
                aim_sub \o <<" ", "'", "x", "'">>}

SubCall(entry, spans, env_id, region) ==
    [entry |-> entry, spans |-> spans, env_id |-> env_id, region |-> region]
\* calls of insert_env_ref_aim_sub on a template, and of insert_env_ref_str on
\* a reference, on 'x' and on a template
SubCalls ==
    {SubCall("insert_env_ref_aim_sub", spans, env_id, region) :
        spans \in SeqsOf(SpanKinds, MaxSpans) \ {<<>>}, env_id \in EnvIds, region \in Regions}
    \cup {SubCall("insert_env_ref_str", <<kind>>, env_id, region) :
        kind \in SpanKinds \cup {"a", "template"}, env_id \in EnvIds, region \in Regions}
CallText(call) ==
    IF call.entry = "insert_env_ref_aim_sub"
    THEN template_text(call.spans, call.env_id, call.region)
    ELSE IF call.spans = <<"template">>
    THEN template_text(<<"a.b">>, call.env_id, call.region)
    ELSE ref_text(call.spans[1], call.env_id, call.region)

SubIdle ==
    /\ s_pc = "idle"
    /\ s_call = SubCall("", <<>>, <<>>, <<>>)
    /\ s_str = <<>>
    /\ s_loop = NotLooping
    /\ s_first = <<>>
    /\ s_exc = ""

SubInit ==
    /\ \/ /\ s_call \in SubCalls
          /\ s_str = CallText(s_call)
       \/ /\ s_call \in {SubCall("insert_env_ref_aim_sub", <<>>, <<"e">>, <<"r">>)}
          /\ s_str \in NoTemplates
    /\ s_pc = s_call.entry
    /\ s_loop = NotLooping
    /\ s_first = <<>>
    /\ s_exc = ""

\* insert_env_ref_str(str_value, env_id, region), and the same call on what
\* it returned (as normalize_environment_refs makes it when it meets the
\* value again)
InsertEnvRefStr ==
    /\ s_pc \in {"insert_env_ref_str", "once"}
    /\ IF startswith(s_str, aim_sub \o <<" ">>)
            /\ str_find(s_str, netenv_ref, 0, Len(s_str)) # -1
       THEN /\ s_pc' = "insert_env_ref_aim_sub"
            /\ UNCHANGED <<s_str, s_first, s_exc>>
       ELSE \E new_ref \in {insert_env_ref_str(s_str, s_call.env_id, s_call.region)} :
               /\ s_exc' = new_ref.exc
               /\ s_pc' = IF new_ref.exc # "" THEN "raised"
                          ELSE IF s_pc = "once" THEN "twice" ELSE "once"
               /\ s_str' = IF new_ref.exc # "" THEN s_str ELSE new_ref.value
               /\ s_first' = IF s_pc = "once" THEN s_str ELSE s_first
    /\ UNCHANGED <<s_call, s_loop>>
    /\ UNCHANGED notSub

\* insert_env_ref_aim_sub(str_value, env_id, region) up to its loop
InsertEnvRefAimSub ==
    /\ s_pc = "insert_env_ref_aim_sub"
    /\ \E quoted \in {isolate_quoted(s_str)} :
          /\ s_pc' = IF quoted.exc # "" THEN "raised"
                     ELSE IF quoted.done THEN "returned" ELSE "while"
          /\ s_exc' = quoted.exc
          /\ s_loop' = quoted.loop
    /\ UNCHANGED <<s_call, s_str, s_first>>
    /\ UNCHANGED notSub

\* loader.py:893-915, one pass of 'while True' of insert_env_ref_aim_sub;
\* rep_1_idx is dollar_idx, sub_ref_idx is netenv_ref_idx, and sub_var is
\* sub_ref
SubstituteOnce ==
    /\ s_pc = "while"
    /\ \E dollar_idx \in {str_find(s_str, <<"$", "{">>, s_loop.str_idx,
                                   s_loop.end_str_idx)} :
          IF dollar_idx = -1
          THEN /\ s_pc' = IF s_loop.first_pass THEN "raised" ELSE "returned"
               /\ s_exc' = IF s_loop.first_pass THEN "StackException" ELSE ""
               /\ UNCHANGED <<s_str, s_loop>>
          ELSE \E rep_2_idx \in {str_find(s_str, <<"}">>, dollar_idx,
                                          s_loop.end_str_idx) + 1} :
               \E netenv_ref_idx \in {str_find(s_str, netenv_ref, dollar_idx,
                                               rep_2_idx)} :
                  IF netenv_ref_idx = -1
                  THEN /\ s_pc' = "returned"
                       /\ s_exc' = ""
                       /\ UNCHANGED <<s_str, s_loop>>
                  ELSE \E sub_ref_end_idx \in
                              {netenv_ref_idx + (rep_2_idx - netenv_ref_idx - 1)} :
                       \E sub_ref \in {slice(s_str, netenv_ref_idx, sub_ref_end_idx)} :
                       \E new_ref \in {insert_env_ref_str(sub_ref, s_call.env_id,
                                                          s_call.region)} :
                          IF new_ref.exc # ""
                          THEN /\ s_pc' = "raised"
                               /\ s_exc' = new_ref.exc
                               /\ UNCHANGED <<s_str, s_loop>>
                          ELSE /\ s_pc' = "while"
                               /\ s_exc' = ""
                               /\ s_str' = replace(s_str, sub_ref, new_ref.value)
                               /\ s_loop' = [s_loop EXCEPT !.first_pass = FALSE]
    /\ UNCHANGED <<s_call, s_first>>
    /\ UNCHANGED notSub

SubNext == InsertEnvRefStr \/ InsertEnvRefAimSub \/ SubstituteOnce

(***************************************************************************)
(* The item instantiate_env_region_config builds from a tier: its          *)
(* configuration is merged over the tiers below it, and annotate_base_config *)
(* is called with the merged configuration and the one it was merged over. *)
(***************************************************************************)
\* the names a dict answers getattr for: its methods
DictAttributes ==
    {"clear", "copy", "fromkeys", "get", "items", "keys", "pop", "popitem",
     "setdefault", "update", "values"}
\* a bound method of a dict
Method(name) == [k |-> "method", own |-> "-", v |-> name]
\* getattr(base_config, name, None) of a dict: its keys are no attributes
getattr_of_dict(base_config, name) ==
    IF name \in DictAttributes THEN Method(name) ELSE None
\* bool(value) of None, a number, a method
bool(value) ==
    CASE value.k = "none" -> FALSE
      [] value.k = "int" -> value.v # 0
      [] value.k \in {"dict", "list"} -> value.v # EmptyMap /\ value.v # <<>>
      [] OTHER -> TRUE

\* loader.annotate_base_config(obj, override_config, base_config): the
\* attributes it sets on obj, each under '__base__' + name
annotate_base_config(override_config, base_config) ==
    [name \in {key \in DOMAIN override_config.v :
                  bool(getattr_of_dict(base_config, key))} |->
        getattr_of_dict(base_config, name)]

\* the keys of an item's configuration, one of them the name of a method
AnnotatedKeys == {"title", "items"}
AnnotatedConfigs == {Dict("-", f) : f \in MapsOver(AnnotatedKeys, {Num(1), Num(2)})}
\* an item of a tier: the tier, the item's base definition, its
\* configuration in the default tier when the default tier has
\* 'applications', and its configuration in the tier
AnnotateCalls ==
    {[env_region_name |-> "default", global_item_config |-> g, env_default |-> None,
      item_config |-> c] : g \in AnnotatedConfigs, c \in AnnotatedConfigs}
    \cup {[env_region_name |-> "region", global_item_config |-> g, env_default |-> d,
           item_config |-> c] :
             g \in AnnotatedConfigs, d \in AnnotatedConfigs \cup {None},
             c \in AnnotatedConfigs}

AnnotateIdle ==
    /\ n_pc = "idle"
    /\ n_call = [env_region_name |-> "", global_item_config |-> None,
                 env_default |-> None, item_config |-> None]
    /\ n_base_config = None
    /\ n_item_config = None
    /\ n_annotations = EmptyMap

AnnotateInit ==
    /\ n_pc = "config"
    /\ n_call \in AnnotateCalls
    /\ n_base_config = None
    /\ n_item_config = None
    /\ n_annotations = EmptyMap

\* loader.py:1190-1206, for one item of the tier: the merges and the call of
\* annotate_base_config
InstantiateItem ==
    /\ n_pc = "config"
    /\ \E base_config \in
            {IF n_call.env_region_name = "default" \/ n_call.env_default = None
             THEN n_call.global_item_config
             ELSE merge(n_call.global_item_config, n_call.env_default)} :
          \E item_config \in {merge(base_config, n_call.item_config)} :
              /\ n_base_config' = base_config
              /\ n_item_config' = item_config
              /\ n_annotations' = annotate_base_config(item_config, base_config)
    /\ n_pc' = "annotated"
    /\ UNCHANGED n_call
    /\ UNCHANGED notAnnotate

AnnotateNext == InstantiateItem

(***************************************************************************)
(* Specifications: one per component, the other components idle.           *)
(***************************************************************************)
InitMerge ==
    MergeInit /\ RefIdle /\ LoaderIdle /\ ApplyIdle /\ ResolverIdle /\ LoadAllIdle
        /\ RuleIdle /\ EnvRegionIdle /\ TypesIdle /\ DescentIdle /\ SubIdle
        /\ AnnotateIdle
SpecMerge == InitMerge /\ [][MergeNext]_vars

InitRef ==
    RefInit /\ MergeIdle /\ LoaderIdle /\ ApplyIdle /\ ResolverIdle /\ LoadAllIdle
        /\ RuleIdle /\ EnvRegionIdle /\ TypesIdle /\ DescentIdle /\ SubIdle
        /\ AnnotateIdle
SpecRef == InitRef /\ [][RefNext]_vars

InitLoader ==
    LoaderInit /\ MergeIdle /\ RefIdle /\ ApplyIdle /\ ResolverIdle /\ LoadAllIdle
        /\ RuleIdle /\ EnvRegionIdle /\ TypesIdle /\ DescentIdle /\ SubIdle
        /\ AnnotateIdle
SpecLoader == InitLoader /\ [][LoaderNext]_vars

InitApply ==
    ApplyInit /\ MergeIdle /\ RefIdle /\ LoaderIdle /\ ResolverIdle /\ LoadAllIdle
        /\ RuleIdle /\ EnvRegionIdle /\ TypesIdle /\ DescentIdle /\ SubIdle
        /\ AnnotateIdle
SpecApply == InitApply /\ [][ApplyNext]_vars

InitResolver ==
    ResolverInit /\ MergeIdle /\ RefIdle /\ LoaderIdle /\ ApplyIdle /\ LoadAllIdle
        /\ RuleIdle /\ EnvRegionIdle /\ TypesIdle /\ DescentIdle /\ SubIdle
        /\ AnnotateIdle
SpecResolver == InitResolver /\ [][ResolverNext]_vars

InitLoadAll ==
    LoadAllInit /\ MergeIdle /\ RefIdle /\ LoaderIdle /\ ApplyIdle /\ ResolverIdle
        /\ RuleIdle /\ EnvRegionIdle /\ TypesIdle /\ DescentIdle /\ SubIdle
        /\ AnnotateIdle
SpecLoadAll == InitLoadAll /\ [][LoadAllNext]_vars

InitRule ==
    RuleInit /\ MergeIdle /\ RefIdle /\ LoaderIdle /\ ApplyIdle
        /\ ResolverIdle /\ LoadAllIdle /\ EnvRegionIdle /\ TypesIdle
        /\ DescentIdle /\ SubIdle /\ AnnotateIdle
SpecRule == InitRule /\ [][RuleNext]_vars

InitEnvRegion ==
    EnvRegionInit /\ MergeIdle /\ RefIdle /\ LoaderIdle /\ ApplyIdle
        /\ ResolverIdle /\ LoadAllIdle /\ RuleIdle /\ TypesIdle /\ DescentIdle
        /\ SubIdle /\ AnnotateIdle
SpecEnvRegion == InitEnvRegion /\ [][EnvRegionNext]_vars

InitTypes ==
    TypesInit /\ MergeIdle /\ RefIdle /\ LoaderIdle /\ ApplyIdle
        /\ ResolverIdle /\ LoadAllIdle /\ RuleIdle /\ EnvRegionIdle
        /\ DescentIdle /\ SubIdle /\ AnnotateIdle
SpecTypes == InitTypes /\ [][TypesNext]_vars

InitDescent ==
    DescentInit /\ MergeIdle /\ RefIdle /\ LoaderIdle /\ ApplyIdle
        /\ ResolverIdle /\ LoadAllIdle /\ RuleIdle /\ EnvRegionIdle
        /\ TypesIdle /\ SubIdle /\ AnnotateIdle
SpecDescent == InitDescent /\ [][DescentNext]_vars

InitAnnotate ==
    AnnotateInit /\ MergeIdle /\ RefIdle /\ LoaderIdle /\ ApplyIdle
        /\ ResolverIdle /\ LoadAllIdle /\ RuleIdle /\ EnvRegionIdle
        /\ TypesIdle /\ DescentIdle /\ SubIdle
SpecAnnotate == InitAnnotate /\ [][AnnotateNext]_vars

InitSub ==
    SubInit /\ MergeIdle /\ RefIdle /\ LoaderIdle /\ ApplyIdle
        /\ ResolverIdle /\ LoadAllIdle /\ RuleIdle /\ EnvRegionIdle
        /\ TypesIdle /\ DescentIdle /\ AnnotateIdle
SpecSub == InitSub /\ [][SubNext]_vars
\* a call that can take a step takes it
SpecSubFair == InitSub /\ [][SubNext]_vars /\ WF_vars(SubNext)

(***************************************************************************)
(* Claims about merge                                                      *)
(***************************************************************************)

\* r is override laid over base: a null override keeps base, two maps are
\* laid over key by key, two lists index by index, any other override wins.
RECURSIVE LaidOver(_, _, _)
LaidOver(a, b, r) ==
    IF isdict(a) /\ isdict(b)
    THEN /\ isdict(r)
         /\ DOMAIN r.v = DOMAIN a.v \cup DOMAIN b.v
         /\ \A key \in DOMAIN a.v \ DOMAIN b.v : r.v[key] = a.v[key]
         /\ \A key \in DOMAIN b.v : LaidOver(get(a, key), b.v[key], r.v[key])
    ELSE IF islist(a) /\ islist(b)
    THEN /\ islist(r)
         /\ Len(r.v) = Max(Len(a.v), Len(b.v))
         /\ \A i \in 1..Len(r.v) :
               LaidOver(zip_longest(a.v, i), zip_longest(b.v, i), r.v[i])
    ELSE r = IF b = None THEN a ELSE b

\* r holds b's value whatever it is, merged into a's only when both are maps.
RECURSIVE Overridden(_, _, _)
Overridden(a, b, r) ==
    IF isdict(a) /\ isdict(b)
    THEN /\ isdict(r)
         /\ DOMAIN r.v = DOMAIN a.v \cup DOMAIN b.v
         /\ \A key \in DOMAIN a.v \ DOMAIN b.v : r.v[key] = a.v[key]
         /\ \A key \in DOMAIN b.v : Overridden(get(a, key), b.v[key], r.v[key])
    ELSE r = b

\* C1 (as claimed): merge(A, B) has exactly the keys of A and of B, a key only
\* in A keeps A's value, and every key of B holds B's value whatever it is
\* (merged recursively when both values are mappings).
C1_EveryKeyOfBHoldsBsValue ==
    m_pc = "merged" =>
        Overridden(Plain(m_base), Plain(m_override), Plain(m_result))

\* C1 (amended): merge(A, B) has exactly the keys of A and of B, a key only in
\* A keeps A's value, and a key of B holds B's value unless B's value is null
\* (then A's value, or null when A lacks the key) or both values are mappings
\* (merged recursively) or both are sequences (merged index by index); the
\* scenario {a: 1, b: {x: 1, y: 2}} with {b: {y: 3}} yields
\* {a: 1, b: {x: 1, y: 3}}.
C1_MergeLaysOverrideOverBase ==
    m_pc = "merged" =>
        /\ LaidOver(Plain(m_base), Plain(m_override), Plain(m_result))
        /\ (m_base = ScenarioBase /\ m_override = ScenarioOverride
              => Plain(m_result) = ScenarioMerged)

C1_Witness ==
    /\ m_pc = "merged"
    /\ m_base = ScenarioBase
    /\ m_override = ScenarioOverride
    /\ Plain(m_result) = ScenarioMerged

\* C2: merge never mutates base or override and returns a new structure:
\* after the call, and after any later in-place change to a map or list of
\* the result, both inputs hold what they held when they were passed.
C2_InputsNeverChange ==
    /\ Plain(m_base) = Plain(m_base0)
    /\ Plain(m_override) = Plain(m_override0)

\* C3: for every nested mapping A, merge(A, A) equals A and merge(A, {})
\* equals A.
C3_MergeSelfAndEmpty ==
    m_pc \in {"self", "empty"} => Plain(m_result) = Plain(m_base)

C3_Witness ==
    /\ m_pc = "self"
    /\ "a" \in DOMAIN m_base.v /\ "b" \in DOMAIN m_base.v
    /\ islist(m_base.v["a"])
    /\ \E i \in 1..Len(m_base.v["a"].v) : isdict(m_base.v["a"].v[i])
    /\ m_base.v["b"] = Num(2)
    /\ Plain(m_result) = Plain(m_base)

(***************************************************************************)
(* Claims about the reference grammar                                      *)
(***************************************************************************)

\* the text begins with the sentinel, then the namespace ns, then '.'
BeginsWithNamespace(text, ns) ==
    /\ Len(text) >= Len(aim_ref_sentinel) + Len(ns) + 1
    /\ \A i \in 1..Len(aim_ref_sentinel) : text[i] = aim_ref_sentinel[i]
    /\ \A i \in 1..Len(ns) : text[Len(aim_ref_sentinel) + i] = ns[i]
    /\ text[Len(aim_ref_sentinel) + Len(ns) + 1] = "."

\* the text after the sentinel, up to the next space
RECURSIVE UpToSpace(_)
UpToSpace(s) ==
    IF s = <<>> \/ Head(s) = " " THEN <<>> ELSE <<Head(s)>> \o UpToSpace(Tail(s))
AfterSentinel(text) == SubSeq(text, Len(aim_ref_sentinel) + 1, Len(text))

\* C5 (as claimed): for every Reference R the constructor produces from a
\* text, is_ref(R.raw) is true, R.parts joined by '.' is R.ref, R.ref is the
\* part of the text after the sentinel, and R.type is R.parts[0].
C5_EveryParsedReferenceIsValid ==
    r_pc = "ref" =>
        /\ is_ref(r_ref.raw)
        /\ join(r_ref.parts, ".") = r_ref.ref
        /\ r_ref.ref = AfterSentinel(r_text)
        /\ r_ref.type = r_ref.parts[1]

\* C5 (amended): for every Reference R the constructor produces from a text,
\* R.parts joined by '.' is R.ref and R.type is R.parts[0]; is_ref(R.raw) is
\* true exactly when is_ref(text) is, and otherwise the constructor reports
\* the text invalid; when is_ref(text) is true, R.ref is the part of the text
\* after the sentinel up to the next space (all of it when there is none).
C5_ParsedReferenceRoundTrip ==
    r_pc = "ref" =>
        /\ join(r_ref.parts, ".") = r_ref.ref
        /\ r_ref.type = r_ref.parts[1]
        /\ is_ref(r_ref.raw) = is_ref(r_text)
        /\ r_ref.invalid_printed = ~is_ref(r_text)
        /\ (is_ref(r_text) => r_ref.ref = UpToSpace(AfterSentinel(r_text)))

C5_Witness ==
    /\ r_pc = "ref"
    /\ is_ref(r_text)
    /\ r_ref.type = ref_types[2]
    /\ Len(r_ref.parts) = 2
    /\ r_ref.ref # AfterSentinel(r_text)
    /\ r_ref.ref = UpToSpace(AfterSentinel(r_text))

\* C6: is_ref(text) is true if and only if text begins with the sentinel,
\* followed by one of the five namespaces (resource, netenv, accounts,
\* function, service), followed by '.'.
C6_IsRefIffSentinelNamespaceDot ==
    r_pc = "is_ref" =>
        (r_isref <=> \E i \in 1..5 : BeginsWithNamespace(r_text, ref_types[i]))

C6_Witness ==
    /\ r_pc = "is_ref"
    /\ r_isref
    /\ BeginsWithNamespace(r_text, ref_types[5])

(***************************************************************************)
(* Claims about the loader                                                 *)
(***************************************************************************)

\* the keys of the config that the schema of the object has no field for
UnknownOf(obj, config) ==
    {i \in 1..Len(config.v) : config.v[i].key \notin get_all_fields(obj.cls)}

\* C4 (as claimed): for every node of any type, plain or container,
\* apply_attributes_from_config with a config that has a key absent from the
\* node's field set raises UnusedProjectField, naming such a key, the file
\* path and the node type.
C4_UnknownKeyRaisesForEveryType ==
    (p_pc \in {"applied", "raised"} /\ UnknownOf(p_obj, p_config) # {}) =>
        /\ p_result.err.exc = "UnusedAimProjectField"
        /\ \E i \in UnknownOf(p_obj, p_config) : p_result.err.key = p_config.v[i].key
        /\ p_result.err.path = p_path
        /\ p_result.err.type = p_obj.cls

\* C4 (amended): for every node that is not a container,
\* apply_attributes_from_config with a config that has a key absent from the
\* node's field set raises UnusedProjectField before it sets any attribute,
\* naming the first such key in the order of the config, the read_file_path
\* it was called with (empty when the caller passed none) and the node type;
\* for a container node its own keys without a field are ignored: the call
\* raises UnusedProjectField only for an object constructed below the node.
C4_UnknownKeyRaisesUnlessContainer ==
    p_pc \in {"applied", "raised"} =>
        IF UnknownOf(p_obj, p_config) # {} /\ ~IMapping_providedBy(p_obj.cls)
        THEN /\ p_pc = "raised"
             /\ p_result.err =
                    UnusedAimProjectField(p_path,
                        p_config.v[SetMin(UnknownOf(p_obj, p_config))].key, p_obj.cls)
             /\ p_result.obj = p_obj
        ELSE p_result.err.exc = "UnusedAimProjectField" =>
                p_result.err.type # p_obj.cls

C4_Witness ==
    /\ p_pc = "raised"
    /\ p_obj.cls = "CloudFront"
    /\ p_path = ReadFilePath
    /\ Cardinality(UnknownOf(p_obj, p_config)) = 3
    /\ p_result.err = UnusedAimProjectField(ReadFilePath, "zz", "CloudFront")

\* the nodes a node holds: the children of a container, the object of a
\* single-object field, the values of a keyed-mapping field and the members
\* of a list-of-objects field
held(nodes, cur_node) ==
    LET fs == Fields(cur_node.cls)
        of_field(field) ==
            LET obj == getattr(cur_node, field) IN
            IF obj = YNone THEN {}
            ELSE CASE field.kind = "Object" -> {obj.v}
                   [] field.kind = "Dict" -> {obj.v[i].val : i \in 1..Len(obj.v)}
                   [] field.kind = "List" ->
                        IF obj.k = "objlist" THEN {obj.v[i] : i \in 1..Len(obj.v)} ELSE {}
                   [] OTHER -> {}
    IN  (IF IMapping_providedBy(cur_node.cls)
         THEN {cur_node.items[i].val : i \in 1..Len(cur_node.items)} ELSE {})
        \cup UNION {of_field(fs[i]) : i \in 1..Len(fs)}

\* the manual recursive count: a node and all it holds, counted one by one
RECURSIVE count(_, _)
count(nodes, id) ==
    LET below == held(nodes, node(nodes, id))
        RECURSIVE sum(_)
        sum(S) == IF S = {} THEN 0
                  ELSE LET c == CHOOSE c \in S : TRUE
                       IN  count(nodes, c) + sum(S \ {c})
    IN  1 + sum(below)

RECURSIVE reachable(_, _)
reachable(nodes, id) ==
    {id} \cup UNION {reachable(nodes, c) : c \in held(nodes, node(nodes, id))}

occurrences(s, x) == Cardinality({i \in 1..Len(s) : s[i] = x})

\* C7 (as claimed): for every built tree get_all_nodes(root) returns every
\* node reachable from the root through container children, single-object
\* fields, keyed-mapping fields and list-of-objects fields exactly once: the
\* number of entries equals the manual recursive count and no node appears
\* twice.
C7_EnumeratesEveryNodeExactlyOnce ==
    l_pc = "walked" =>
        /\ l_visited.err = ""
        /\ \A id \in reachable(l_nodes, res_groups.id) :
               occurrences(l_visited.nodes, id) = 1
        /\ Len(l_visited.nodes) = count(l_nodes, res_groups.id)

\* C10 (as claimed): in every tree the loader builds each node but the root
\* has exactly one parent, and no two distinct nodes have the same
\* aim_ref_list, children of a list-of-objects field and children of two
\* keyed-mapping fields of one node included.
C10_OneParentAndUniquePath ==
    l_pc \in {"built", "walked"} =>
        /\ \A n \in l_nodes : n.id # res_groups.id => n.parent.tag = "node"
        /\ \A n1, n2 \in l_nodes :
               (n1 # n2 /\ n1.parent.tag # "unset" /\ n2.parent.tag # "unset") =>
                   aim_ref_list(l_nodes, n1) # aim_ref_list(l_nodes, n2)

(***************************************************************************)
(* Claims about the reference resolver                                     *)
(***************************************************************************)

Absent == [k |-> "absent", v |-> <<>>]
\* what the content of a snapshot holds at a path of keys, Absent if a key
\* of the path is missing or the path leads through a value that has no keys
RECURSIVE Follow(_, _)
Follow(content, path) ==
    IF path = <<>> THEN content
    ELSE IF content.k # "map" THEN Absent
    ELSE IF ~has_key(content, Head(path)) THEN Absent
    ELSE Follow(config_get(content, Head(path)), Tail(path))

IsLeaf(x) == IF x.k = "map" THEN keys(x) = <<name_key>> ELSE FALSE

\* the snapshot of a reference: the content of the file named by its first
\* segment, Absent when there is no such file
SnapshotOf(ref, outputs) ==
    IF outputs.exists
    THEN IF outputs.key = ref.parts[1] THEN outputs.content ELSE Absent
    ELSE Absent

\* the lengths of the prefixes of the reference's segments at which the
\* snapshot records a leaf
LeafDepths(ref, outputs) ==
    {n \in 1..Len(ref.parts) :
        IsLeaf(Follow(SnapshotOf(ref, outputs), SubSeq(ref.parts, 1, n)))}
\* the lengths of the prefixes at which the snapshot holds a value that is
\* no mapping (0: the content of the file itself)
ScalarDepths(ref, outputs) ==
    {n \in 0..Len(ref.parts) :
        Follow(SnapshotOf(ref, outputs), SubSeq(ref.parts, 1, n)).k
            \notin {"map", "absent"}}
FirstLeafValue(ref, outputs) ==
    config_get(Follow(SnapshotOf(ref, outputs),
                      SubSeq(ref.parts, 1, SetMin(LeafDepths(ref, outputs)))),
               name_key)

\* resolve_ref was called and the node's own resolution answered the
\* pending marker, a Stack
PendingResolved ==
    /\ o_pc \in {"returned", "raised"}
    /\ IF Reference_raises(o_ref_str) THEN FALSE
       ELSE own_resolution(Reference(o_ref_str), o_account_ctx, o_value) = Returns(o_value)
    /\ o_value.k = "Stack"

\* C8 (as claimed): resolving a reference whose own resolution returns a
\* pending marker returns the marker unchanged when the output snapshot has
\* no leaf for the reference's path segments, and the first recorded leaf
\* value when it has one.
C8_MarkerOrFirstLeafValue ==
    PendingResolved =>
        o_result =
            IF LeafDepths(Reference(o_ref_str), o_outputs) = {}
            THEN Returns(o_value)
            ELSE Returns(FirstLeafValue(Reference(o_ref_str), o_outputs))

\* C8 (amended): resolving a reference whose own resolution returns a
\* pending marker (a Stack) consults the output snapshot only when the
\* project has a home folder and the Stack answers is_stack_cached(); it
\* then returns the value of the first leaf met along the reference's
\* segments, the first segment included, when that value is not None, and
\* raises AttributeError when it meets a value that is no mapping before any
\* leaf.  In every other case (snapshot not consulted, no file, no leaf, a
\* leaf that records None) it returns the marker unchanged.
C8_CachedStackReadsSnapshot ==
    PendingResolved =>
        LET ref == Reference(o_ref_str)
            leaves == LeafDepths(ref, o_outputs)
            scalars == ScalarDepths(ref, o_outputs)
        IN  IF ~(o_project.home /\ o_value = Stack(TRUE)) THEN o_result = Returns(o_value)
            ELSE IF scalars # {} /\ \A n \in leaves : \E m \in scalars : m < n
            THEN o_result = Raises("AttributeError")
            ELSE IF leaves = {} THEN o_result = Returns(o_value)
            ELSE IF FirstLeafValue(ref, o_outputs) = YNone
            THEN o_result = Returns(o_value)
            ELSE o_result = Returns(FirstLeafValue(ref, o_outputs))

C8_Witness ==
    /\ PendingResolved
    /\ o_project.home
    /\ o_value = Stack(TRUE)
    /\ Len(Reference(o_ref_str).parts) = 3
    /\ LeafDepths(Reference(o_ref_str), o_outputs) = {3}
    /\ o_result = Returns(YStr(Arn))

(***************************************************************************)
(* Claims about a load                                                     *)
(***************************************************************************)

\* the deferred attributes of the project: the '_ref_' attributes of nodes
DeferredAttributes ==
    UNION {{<<n.id, name>> : name \in DOMAIN n.refs} : n \in a_nodes}

\* C9 (as claimed): when load_all has returned, every deferred attribute
\* stored in a '_ref_' attribute during construction has been passed to the
\* reference resolver and its field overwritten with the result (the code
\* has no way to mark one as left deferred): none is left only in its
\* '_ref_' attribute without the resolution pass having visited it.
C9_LoadResolvesEveryDeferredAttribute ==
    a_pc = "loaded" => DeferredAttributes \subseteq a_resolved

C19_SentinelTextAlwaysParses ==
    (r_pc \in {"ref", "IndexError"} /\ startswith(r_text, aim_ref_sentinel)) =>
        /\ r_pc = "ref"
        /\ (~is_ref(r_text) => r_ref.invalid_printed)

(***************************************************************************)
(* Claims about what a load that aborts leaves behind.                     *)
(***************************************************************************)
\* a field of a node of the tree failed its schema's validation
FieldValidationFailed ==
    /\ a_pc = "raised"
    /\ a_error.exc = "InvalidAimProjectFile"
    /\ a_error.type \in Classes

\* C12: when a field fails validation while a node is populated, the load
\* aborts with one InvalidAimProjectFile naming the file, the field and the
\* type of the node, and after the abort the loader holds no project tree:
\* its project is not set and no node has been kept.
C12_AbortLeavesNoProjectTree ==
    FieldValidationFailed =>
        /\ a_error.path # "" /\ a_error.key # ""
        /\ ~a_project
        /\ a_nodes = {}

(***************************************************************************)
(* Claims about the order of a load.                                       *)
(***************************************************************************)
\* the events of the trace, and the files the load opened
Events == {a_trace[i] : i \in 1..Len(a_trace)}
Opened == {e.what : e \in {x \in Events : x.ev = "open"}}
\* the declared version and the version of the model differ
VersionsDiffer ==
    /\ a_version # NoVersionFile
    /\ a_version[1] # a_installed[1] \/ a_version[2] # a_installed[2]

\* C13: load_all checks the declared version first.  When its major or its
\* minor number differs from the model's, the load raises and by then no
\* document of the project has been read and no node constructed; when both
\* are equal the load goes on to read project.yaml.
C13_VersionCheckedFirst ==
    (a_pc # "start" /\ a_version # NoVersionFile) =>
        IF VersionsDiffer
        THEN /\ a_pc = "raised"
             /\ a_error = InvalidAimProjectFile("aim-project-version.txt", "", "version")
             /\ Opened = {VersionFile}
             /\ ~a_project
             /\ a_nodes = {}
        ELSE /\ a_error.type # "version"
             /\ ProjectFile \in Opened
             /\ a_project

C13_Witness ==
    /\ a_pc = "raised"
    /\ a_installed = <<1, 0>>
    /\ a_version = <<1, 1>>
    /\ a_trace = <<Event("open", VersionFile)>>

\* the positions of the trace at which the loader called the method
Called(name) == {i \in 1..Len(a_trace) : a_trace[i] = Call(name)}
\* every call of the first method comes before every call of the second, and
\* both were called
Before(first, second) ==
    /\ Called(first) # {} /\ Called(second) # {}
    /\ \A i \in Called(first), j \in Called(second) : i < j

\* C14: in every completed load the passes after the documents run in the
\* order reference resolution, computed-metric injection, output patch-back,
\* consistency check.
C14_PostBuildOrder ==
    a_pc = "loaded" =>
        /\ Before("instantiate_services", "load_references")
        /\ Before("load_references", "load_core_monitoring")
        /\ Before("load_core_monitoring", "load_outputs")
        /\ Before("load_outputs", "check_notification_config")

\* the positions of the trace at which a reference was resolved
Resolutions == {i \in 1..Len(a_trace) : a_trace[i].ev = "resolve_ref"}
\* the field of the class with the name
FieldOf(cls, name) == Fields(cls)[CHOOSE i \in 1..Len(Fields(cls)) : Fields(cls)[i].name = name]

\* C15: while load_all runs no reference is resolved: resolve_ref is called
\* only by load_references, after every document has been read and
\* instantiated.  Populating a node only records the text of a reference,
\* in the '_ref_' attribute of the field, or in the field itself when the
\* field is a TextReference; it assigns no other field a reference.
C15_NoResolutionWhileLoading ==
    /\ a_pc \in {"start", "loaded", "raised"} => Resolutions = {}
    /\ \A i \in Resolutions :
          /\ Called("load_references") # {} /\ \A j \in Called("load_references") : j < i
          /\ Before("load_core_monitoring", "load_references")
          /\ \A j \in 1..Len(a_trace) : a_trace[j].ev = "open" => j < i
    /\ a_pc \in {"loaded", "raised"} =>
          \A n \in a_nodes :
              /\ \A name \in DOMAIN n.refs :
                    /\ is_reference(n.refs[name])
                    /\ name \notin DOMAIN n.attrs
              /\ \A name \in DOMAIN n.attrs :
                    is_reference(n.attrs[name]) =>
                        FieldOf(n.cls, name).kind = "TextReference"

C15_Witness ==
    /\ a_pc = "resolved"
    /\ Resolutions # {}
    /\ \E n \in a_nodes : n.cls = "CloudFront" /\ "webacl_id" \in DOMAIN n.refs
    /\ \E n \in a_nodes : "certificate" \in DOMAIN n.attrs

(***************************************************************************)
(* Claims about the credentials document.                                  *)
(***************************************************************************)
\* the Credentials of the project
CredentialsNode == node(a_nodes, <<"project", "credentials">>)

\* C16: when .credentials.yaml is read and its mode is not exactly
\* 0o100400 (a regular file only its owner can read), read_yaml raises
\* PermissionError before it opens the file: the file is never opened and
\* the Credentials keep what their construction gave them.  With that mode
\* the file is opened, after the test, and its fields are assigned.
C16_CredentialsModeCheckedBeforeOpen ==
    (a_pc # "start" /\ Event("stat", CredentialsFile) \in Events) =>
        IF a_credentials # "0o100400"
        THEN /\ a_pc = "raised"
             /\ a_error = PermissionError(".credentials.yaml")
             /\ CredentialsFile \notin Opened
             /\ a_trace[Len(a_trace)] = Event("stat", CredentialsFile)
             /\ CredentialsNode = Project(ProjectName).credentials
        ELSE /\ a_error.exc # "PermissionError"
             /\ \E i, j \in 1..Len(a_trace) :
                   /\ i < j
                   /\ a_trace[i] = Event("stat", CredentialsFile)
                   /\ a_trace[j] = Event("open", CredentialsFile)
             /\ "aws_access_key_id" \in DOMAIN CredentialsNode.attrs

C16_Witness ==
    /\ a_pc = "raised"
    /\ a_credentials = "0o100440"
    /\ a_error.exc = "PermissionError"
    /\ Opened = {VersionFile, ProjectFile}
    /\ DOMAIN CredentialsNode.attrs = {"title"}

(***************************************************************************)
(* Claims about the check of the notification groups.                      *)
(***************************************************************************)
\* the groups the alarms of the applications notify to, with the application
\* and the alarm: [app, alarm, group]
Notified ==
    UNION {UNION {{[app |-> a_monitor.applications[i], 
                    alarm |-> a_monitor.applications[i].alarms[j].name,
                    group |-> a_monitor.applications[i].alarms[j].notification_groups[k]] :
                      k \in 1..Len(a_monitor.applications[i].alarms[j].notification_groups)} :
                  j \in 1..Len(a_monitor.applications[i].alarms)} :
           i \in 1..Len(a_monitor.applications)}
\* those of them that name a group that is not declared
Undeclared == {n \in Notified : n.group \notin a_notificationgroups.names}
\* the load has come to check_notification_config, and whether it went on
\* to the statement after it
Checked == Called("check_notification_config") # {}
WentOn == Called("load_outputs") # {}

RegionItems == DOMAIN applications_of(e_config.region).v

\* C17: every item the region tier configures is loaded, with
\* merge(merge(base, environment default), region) as its configuration,
\* also when the default tier does not mention the item (its share of the
\* merge is then nothing).
C17_RegionItemsLoadWithThreeTiers ==
    e_pc \in {"loaded", "raised"} =>
        \A j \in RegionItems :
            /\ e_error = NoError
            /\ j \in DOMAIN e_region
            /\ Plain(e_region[j]) =
                   Plain(merge(merge(e_config.applications.v[j],
                                     get(applications_of(e_config.default), j)),
                               e_config.region.v["applications"].v[j]))

(***************************************************************************)
(* Claims about the 'type' of a configuration.                             *)
(***************************************************************************)
\* the items whose type the site does not know, or that have none
Untyped ==
    {i \in 1..Len(t_call.items.v) :
        config_get(t_call.items.v[i].val, "type") # KnownType(t_call.site)}

\* C18: at each of the three places, an item whose 'type' is missing or
\* unknown aborts the load with an InvalidAimProjectFile that names the key
\* of the item and the file, never with a bare KeyError.
C18_UnknownTypeNamesKeyAndFile ==
    (t_pc \in {"loaded", "raised"} /\ Untyped # {}) =>
        /\ t_pc = "raised"
        /\ t_error.exc = "InvalidAimProjectFile"
        /\ t_error.key = t_call.items.v[SetMin(Untyped)].key
        /\ t_error.path = t_call.read_file_path

(***************************************************************************)
(* Claims about merge on sequences and on values of different shapes.      *)
(***************************************************************************)

\* the keys under which merge(base, override) calls merge on the two values
MergedKeys == DOMAIN m_base0.v \cap DOMAIN m_override0.v
\* the keys under which both configurations hold a sequence
BothLists == {key \in MergedKeys : islist(m_base0.v[key]) /\ islist(m_override0.v[key])}

\* C21: for all sequences base and override, merge(base, override) is a
\* sequence of length max(len(base), len(override)) whose element i is
\* merge(base[i], override[i]); where one side is exhausted at index i the
\* element is the other side's element i.
C21_ListsMergeIndexByIndex ==
    m_pc = "merged" =>
        \A key \in BothLists :
            LET base == m_base0.v[key].v
                override == m_override0.v[key].v
                merged == m_result.v[key]
            IN  /\ islist(merged)
                /\ Len(merged.v) = Max(Len(base), Len(override))
                /\ \A i \in 1..Len(merged.v) :
                      Plain(merged.v[i]) =
                          IF i > Len(override) THEN Plain(base[i])
                          ELSE IF i > Len(base) THEN Plain(override[i])
                          ELSE Plain(merge(base[i], override[i]))

\* a longer base, a longer override, and an index at which two maps meet
C21_Witness ==
    /\ m_pc = "merged"
    /\ \E key \in BothLists :
          /\ Len(m_base0.v[key].v) = 2
          /\ Len(m_override0.v[key].v) = 1
          /\ isdict(m_base0.v[key].v[1]) /\ isdict(m_override0.v[key].v[1])
          /\ Len(m_result.v[key].v) = 2
          /\ Plain(m_result.v[key].v[2]) = Plain(m_base0.v[key].v[2])

\* every map and list of x is an object that merge created
RECURSIVE Fresh(_)
Fresh(x) ==
    CASE isdict(x) -> x.own = "new" /\ \A key \in DOMAIN x.v : Fresh(x.v[key])
      [] islist(x) -> x.own = "new" /\ \A i \in 1..Len(x.v) : Fresh(x.v[i])
      [] OTHER -> TRUE

\* the keys of override whose two values are neither two mappings nor two
\* sequences (base's value being None when base lacks the key)
MixedKeys ==
    {key \in DOMAIN m_override0.v :
        /\ ~(isdict(get(m_base0, key)) /\ isdict(m_override0.v[key]))
        /\ ~(islist(get(m_base0, key)) /\ islist(m_override0.v[key]))}

\* C22: when base and override are not both mappings and not both sequences
\* (scalars, or mismatched shapes such as a mapping against a list or a
\* scalar), merge returns a deep copy of override if override is present,
\* otherwise a deep copy of base.
C22_MixedShapesCopyTheWinner ==
    m_pc = "merged" =>
        \A key \in MixedKeys :
            /\ Fresh(m_result.v[key])
            /\ Plain(m_result.v[key]) =
                  IF m_override0.v[key].k # "none" THEN Plain(m_override0.v[key])
                  ELSE Plain(get(m_base0, key))

\* a mapping against a list, and a null override over a mapping
C22_Witness ==
    /\ m_pc = "merged"
    /\ \E key \in MixedKeys :
          /\ islist(get(m_base0, key)) /\ isdict(m_override0.v[key])
          /\ m_override0.v[key].own = "override"
          /\ Plain(m_result.v[key]) = Plain(m_override0.v[key])
          /\ m_result.v[key].own = "new"

(***************************************************************************)
(* Claims about the descent of the resolver.                               *)
(***************************************************************************)

\* the parts of the reference from part_idx_start on
DescentParts == SubSeq(Reference(d_ref_str).parts, 3, Len(Reference(d_ref_str).parts))
\* the longest run of those parts that leads from object to object, a plain
\* value of any kind or nothing ending it
RECURSIVE NodesAlong(_, _)
NodesAlong(path, parts) ==
    IF parts = <<>> THEN path
    ELSE IF Append(path, Head(parts)) \in d_graph.items \cup d_graph.nodes
    THEN NodesAlong(Append(path, Head(parts)), Tail(parts))
    ELSE path
LastNode == NodesAlong(<<>>, DescentParts)

\* C23: after get_resolve_ref_obj(obj, ref, part_idx_start), ref.resource is
\* the last node reached, the descent having stopped at the first part that
\* resolves to a plain value (of any kind) or to nothing, and
\* ref.resource_ref is exactly the parts the descent did not consume; it is
\* empty when every part from part_idx_start on resolved to a node.
C23_TargetAndTailAfterDescent ==
    d_pc = "returned" =>
        /\ d_result.resource = Obj("node", LastNode)
        /\ d_result.resource_ref =
              join(SubSeq(DescentParts, Len(LastNode) + 1, Len(DescentParts)), ".")

(***************************************************************************)
(* Claims about the order of a walk.                                       *)
(***************************************************************************)

Walked == l_pc = "walked" /\ l_visited.err = ""
\* the place of a node in what the walk returned
Place(id) == CHOOSE i \in 1..Len(l_visited.nodes) : l_visited.nodes[i] = id
\* the nodes the walk puts on its work-list for a node, in that order
Inserted(id) == children(l_nodes, node(l_nodes, id))
\* the node for which the walk put a node on its work-list
Holder(id) ==
    CHOOSE i \in 1..Len(l_visited.nodes) :
        \E c \in 1..Len(Inserted(l_visited.nodes[i])) :
            Inserted(l_visited.nodes[i])[c] = id
RECURSIVE Depth(_)
Depth(id) ==
    IF id = res_groups.id THEN 0 ELSE 1 + Depth(l_visited.nodes[Holder(id)])

\* C24 (as claimed): get_all_nodes yields nodes in breadth-first order using
\* a FIFO work-list: every node at depth d is yielded before any node at
\* depth d+1, and siblings are yielded in their container's insertion order.
C24_BreadthFirstOrder ==
    Walked =>
        /\ \A i, j \in 1..Len(l_visited.nodes) :
               i < j => Depth(l_visited.nodes[i]) <= Depth(l_visited.nodes[j])
        /\ \A i \in 1..Len(l_visited.nodes) :
               \A a, b \in 1..Len(Inserted(l_visited.nodes[i])) :
                   a < b => Place(Inserted(l_visited.nodes[i])[a])
                                < Place(Inserted(l_visited.nodes[i])[b])

\* a node, then what the walk yields for each of its children, the child
\* inserted last first
RECURSIVE DepthFirst(_)
DepthFirst(id) ==
    <<id>> \o Concat([c \in 1..Len(Inserted(id)) |->
                         DepthFirst(Inserted(id)[Len(Inserted(id)) + 1 - c])])

\* C24 (amended): get_all_nodes yields nodes in depth-first order using a
\* LIFO work-list: the front node is popped and yielded and its children are
\* inserted at the front one by one, so a node is followed by everything the
\* walk yields below its last-inserted child, then below the one inserted
\* before it, and so on; siblings are yielded in the reverse of the order in
\* which they were inserted.
C24_DepthFirstLastInsertedFirst ==
    Walked =>
        /\ l_visited.nodes = DepthFirst(res_groups.id)
        /\ \A i \in 1..Len(l_visited.nodes) :
               \A a, b \in 1..Len(Inserted(l_visited.nodes[i])) :
                   a < b => Place(Inserted(l_visited.nodes[i])[a])
                                > Place(Inserted(l_visited.nodes[i])[b])

\* two groups of which the second, yielded first, holds a resource that is
\* yielded before the first group
C24_Witness ==
    /\ Walked
    /\ Len(Inserted(res_groups.id)) = 2
    /\ Place(Inserted(res_groups.id)[2]) = 2
    /\ \E i, j \in 1..Len(l_visited.nodes) :
          /\ i < j
          /\ l_visited.nodes[j] = Inserted(res_groups.id)[1]
          /\ Depth(l_visited.nodes[i]) = 3

(***************************************************************************)
(* Claims about inserting the environment and the region.                  *)
(***************************************************************************)

\* the reference of a span with the environment and the region directly
\* after the network environment n; 'x', no reference, as it is
carrying(kind, env_id, region) ==
    CASE kind \in {"a.b", "carried"} ->
            netenv_ref \o <<"n", ".">> \o env_id \o <<".">> \o region \o <<".", "a", ".", "b">>
      [] kind = "c.d" ->
            netenv_ref \o <<"n", ".">> \o env_id \o <<".">> \o region \o <<".", "c", ".", "d">>
      [] OTHER -> <<"x">>
\* the template of a call with every reference of every span carrying them
Substituted ==
    aim_sub \o <<" ", "'">>
        \o join([i \in 1..Len(s_call.spans) |->
                    <<"$", "{">> \o carrying(s_call.spans[i], s_call.env_id, s_call.region)
                        \o <<"}">>], "-")
        \o <<"'">>

\* C25: for every template with one or more ${...} spans,
\* insert_env_ref_aim_sub inserts the environment name and the region as two
\* path segments directly after the network-environment identifier of every
\* netenv reference inside every span, and leaves every other character
\* untouched.
C25_EverySpanSubstituted ==
    (s_pc = "returned" /\ s_call.entry = "insert_env_ref_aim_sub" /\ s_call.spans # <<>>)
        => s_str = Substituted

\* C28: insert_env_ref_aim_sub terminates for every input: its loop over the
\* ${...} spans always ends, also for a template with two or more spans that
\* hold netenv references and for a span whose reference carries the
\* environment and the region already.
C28_SubstitutionTerminates ==
    (s_pc = "insert_env_ref_aim_sub") ~> (s_pc \in {"returned", "raised"})

\* C29: inserting environment and region into a netenv reference is
\* idempotent: for every netenv reference text insert_env_ref_str applied
\* twice gives what it gives applied once, and a reference that carries the
\* environment and the region directly after the network-environment
\* identifier is returned unchanged.
C29_InsertTwiceIsInsertOnce ==
    (/\ s_call.entry = "insert_env_ref_str"
     /\ s_call.spans \in {<<"a.b">>, <<"c.d">>, <<"carried">>, <<"a">>}
     /\ s_pc \in {"twice", "raised"})
        => /\ s_pc = "twice"
           /\ s_str = s_first
           /\ s_first = carrying(s_call.spans[1], s_call.env_id, s_call.region)

(***************************************************************************)
(* Claims about the fields apply_attributes_from_config reads.             *)
(***************************************************************************)

\* the fields of the object the call reads from the configuration: every
\* field but the name of an object named by its key
FieldsRead ==
    {i \in 1..Len(Fields(p_obj.cls)) :
        Fields(p_obj.cls)[i].name # "name" \/ ~INamed_implementedBy(p_obj.cls)}
\* those whose value, read and coerced, is the text of a reference
ReferenceFields ==
    {i \in FieldsRead :
        LET read == field_value(Fields(p_obj.cls)[i], p_config, p_path)
        IN  read.err = NoError /\ is_reference(read.val)}
\* the objects constructed for the field name of the object
ConstructedFor(name) ==
    {n \in p_result.nodes :
        Len(n.id) > Len(p_obj.id) /\ SubSeq(n.id, 1, Len(p_obj.id) + 1) = p_obj.id \o <<name>>}

\* C26: after a call that returned, a field whose value is the text of a
\* reference holds that text in the attribute itself when it is declared
\* reference-only; otherwise the text is under '_ref_' + name only, the
\* attribute is unset and no object was constructed for the field.
C26_ReferenceTextIsDeferred ==
    p_pc = "applied" =>
        \A i \in ReferenceFields :
            LET field == Fields(p_obj.cls)[i]
                name == field.name
                value == config_get(p_config, name)
                attrs == p_result.obj.attrs
                refs == p_result.obj.refs
            IN  IF field.kind = "TextReference"
                THEN /\ name \in DOMAIN attrs
                     /\ attrs[name] = value
                     /\ name \notin DOMAIN refs
                ELSE /\ name \in DOMAIN refs
                     /\ refs[name] = value
                     /\ name \notin DOMAIN attrs
                     /\ ConstructedFor(name) = {}

C26_Witness ==
    /\ p_pc = "applied"
    /\ p_obj.cls = "CloudFrontOrigin"
    /\ p_result.obj.attrs = [name \in {"s3_bucket"} |-> YStr(RefText)]
    /\ p_result.obj.refs = [name \in {"custom_origin_config"} |-> YStr(RefText)]
    /\ p_result.nodes = {}

\* the fields read that the configuration does not contain
AbsentFields == {i \in FieldsRead : ~has_key(p_config, Fields(p_obj.cls)[i].name)}

\* C30: in a call whose configuration has no unknown key, a declared field
\* the configuration does not contain is skipped without an error, whatever
\* its kind; after the call returned, only fields the configuration contains
\* were assigned, and an object named by its key was not given the name of
\* the configuration.
C30_AbsentFieldsAreSkipped ==
    (p_pc \in {"applied", "raised"} /\ unknown_key(p_obj.cls, p_config) = "") =>
        /\ \A i \in AbsentFields :
              apply_field(p_obj, Fields(p_obj.cls)[i], p_config, p_path) = Skip
        /\ p_pc = "applied" =>
              /\ (DOMAIN p_result.obj.attrs \cup DOMAIN p_result.obj.refs)
                    \subseteq {p_config.v[i].key : i \in 1..Len(p_config.v)}
              /\ INamed_implementedBy(p_obj.cls) =>
                    /\ "name" \notin DOMAIN p_result.obj.attrs \cup DOMAIN p_result.obj.refs
                    /\ p_result.obj.name = p_obj.name

(***************************************************************************)
(* Claims about the annotation of an item with its base configuration.     *)
(***************************************************************************)

\* C27: the item built from a tier holds, for every key of the tier's
\* configuration of the item, the value the configuration it was merged over
\* has for the key, and holds nothing for a key the tier's configuration
\* does not contain.
C27_BaseValuesRecorded ==
    n_pc = "annotated" =>
        /\ \A key \in DOMAIN n_call.item_config.v :
              key \in DOMAIN n_base_config.v =>
                  /\ key \in DOMAIN n_annotations
                  /\ Plain(n_annotations[key]) = Plain(n_base_config.v[key])
        /\ \A key \in DOMAIN n_annotations : key \in DOMAIN n_call.item_config.v

====
